---- MODULE Spec2Model ----
(***************************************************************************)
(* pr-merge-scheduler: comment handler (comment-handler.js), schedule      *)
(* store (utils.js) and sweep (merge-scheduler.js) over a repository host. *)
(* The host (labels, comments, pull requests) is the only persistent       *)
(* state; every handler invocation is one action that threads a context    *)
(* record through the host calls the code makes, in the code's order.      *)
(***************************************************************************)
EXTENDS Integers, Sequences, FiniteSets, TLC

VARIABLES now, label, earlier, comments, merged, nextId, events, last, clean, cancelled,
          race, call, pushed, running

vars == <<now, label, earlier, comments, merged, nextId, events, last, clean, cancelled,
          race, call, pushed, running>>

(***************************************************************************)
(* Bounds of the model.                                                    *)
(***************************************************************************)
NumPRs == 2
MaxNow == 1
MaxEvents == 1
MaxFaults == 1

(***************************************************************************)
(* Program constants.  Time is counted in days.                            *)
(***************************************************************************)
PerPage == 100
ScheduleWindow == 30
SCHEDULE_LABEL == "merge-scheduled"
CANCEL_COMMAND == "@merge-at cancel"
MERGE_METHOD == "squash"

PRs == 1..NumPRs
\* pr.mergeable as the host reports it: true, false or null (not computed yet)
MergeableValues == {"true", "false", "null"}
\* JavaScript truthiness of pr.mergeable
Truthy(v) == v = "true"

Min(a, b) == IF a <= b THEN a ELSE b

\* String.prototype.includes
Includes(s, t) == \E i \in 1..(Len(s) - Len(t) + 1) : SubSeq(s, i, i + Len(t) - 1) = t

(***************************************************************************)
(* Comment bodies.  kind "marker" is the body built by storeScheduleInfo   *)
(* (it starts with the MERGE_SCHEDULE_INFO payload, `when' is the payload's*)
(* scheduleDate); kind "text" is any other body, `text' its characters.    *)
(* The leading emoji of the replies is written "(x) ", "(ok) ", "(no) ".   *)
(***************************************************************************)
TextBody(t) == [kind |-> "text", text |-> t, when |-> 0]
MarkerBody(t) == [kind |-> "marker", text |-> "To cancel, comment: @merge-at cancel", when |-> t]
NoBody == TextBody("")

HasMarker(body) == body.kind = "marker"

\* comments.filter(comment => comment.body.includes('MERGE_SCHEDULE_INFO'))
Markers(cms) == SelectSeq(cms, LAMBDA cm : HasMarker(cm.body))

DeniedBody == TextBody("(x) Only users with write permission can schedule PR merges.")
CancelledBody == TextBody("(no) Scheduled merge has been cancelled.")
UsageBody == TextBody("(x) Invalid command format. Please use: @merge-at YYYY-MM-DD HH:mm[am|pm] [timezone]")
GenericBody == TextBody("(x) An error occurred while processing your command. Please try again.")
SuccessBody == TextBody("(ok) Successfully merged as scheduled!")

(***************************************************************************)
(* Errors: a host rejection carries the HTTP status; `new Error(msg)' has  *)
(* no status (0 here).                                                     *)
(***************************************************************************)
NewError(msg) == [status |-> 0, message |-> msg]
HostError(s) == [status |-> s,
                 message |-> CASE s = 404 -> "Not Found"
                               [] s = 405 -> "Method Not Allowed"
                               [] OTHER -> "Server Error"]
NoError == [status |-> 0, message |-> ""]

Ret(c) == [c |-> c, thrown |-> FALSE, error |-> NoError]
RetData(c, d) == [c |-> c, thrown |-> FALSE, error |-> NoError, data |-> d]
Throw(c, e) == [c |-> c, thrown |-> TRUE, error |-> e]

(***************************************************************************)
(* The repository host.  A context c holds the host state, the fault plan  *)
(* of the invocation (a set of <<n, status>>: the n-th host call of the    *)
(* invocation is rejected with that status) and the log of the host calls  *)
(* made so far.  The comments of a PR are c.earlier[pr] comments of other  *)
(* people (never a marker, never touched by the program), followed by the  *)
(* sequence c.comments[pr]; only the latter is kept element by element.    *)
(***************************************************************************)
Fault(c) ==
  LET n == Len(c.log) + 1
  IN  IF \E f \in c.plan : f[1] = n
        THEN (CHOOSE f \in c.plan : f[1] = n)[2]
        ELSE 0

Logged(c, op, pr, body, st) ==
  [c EXCEPT !.log = Append(@, [op |-> op, pr |-> pr, body |-> body, status |-> st])]

\* a request with per_page: 100 and no page: the first page only
FirstPage(seq) == SubSeq(seq, 1, Min(Len(seq), PerPage))

\* octokit.rest.issues.listComments({per_page: 100}): what the first page
\* holds of cms, after the n earlier comments
FirstPageAfter(n, cms) ==
  IF n >= PerPage THEN <<>> ELSE SubSeq(cms, 1, Min(Len(cms), PerPage - n))

HostCreateComment(c, pr, body) ==
  LET s == Fault(c)
      c1 == Logged(c, "createComment", pr, body, s)
  IN  IF s # 0 THEN Throw(c1, HostError(s))
      ELSE Ret([c1 EXCEPT !.comments[pr] = Append(@, [id |-> c.nextId, body |-> body]),
                          !.nextId = @ + 1])

HostListComments(c, pr) ==
  LET s == Fault(c)
      c1 == Logged(c, "listComments", pr, NoBody, s)
  IN  IF s # 0 THEN Throw(c1, HostError(s))
      ELSE RetData(c1, FirstPageAfter(c.earlier[pr], c.comments[pr]))

HostDeleteComment(c, pr, id) ==
  LET s0 == Fault(c)
      s == IF s0 # 0 THEN s0
           ELSE IF \E i \in 1..Len(c.comments[pr]) : c.comments[pr][i].id = id THEN 0
           ELSE 404
      c1 == Logged(c, "deleteComment", pr, NoBody, s)
  IN  IF s # 0 THEN Throw(c1, HostError(s))
      ELSE Ret([c1 EXCEPT !.comments[pr] = SelectSeq(@, LAMBDA cm : cm.id # id)])

HostAddLabels(c, pr) ==
  LET s == Fault(c)
      c1 == Logged(c, "addLabels", pr, TextBody(SCHEDULE_LABEL), s)
  IN  IF s # 0 THEN Throw(c1, HostError(s))
      ELSE Ret([c1 EXCEPT !.label[pr] = TRUE])

\* the host answers 404 when the issue does not carry the label
HostRemoveLabel(c, pr) ==
  LET s0 == Fault(c)
      s == IF s0 # 0 THEN s0 ELSE IF c.label[pr] THEN 0 ELSE 404
      c1 == Logged(c, "removeLabel", pr, TextBody(SCHEDULE_LABEL), s)
  IN  IF s # 0 THEN Throw(c1, HostError(s))
      ELSE Ret([c1 EXCEPT !.label[pr] = FALSE])

\* a merged pull request is no longer mergeable
HostPullsGet(c, pr) ==
  LET s == Fault(c)
      m == IF c.merged[pr] THEN "false" ELSE c.mergeable[pr]
      c1 == Logged(c, "pulls.get", pr, TextBody(IF s # 0 THEN "" ELSE m), s)
  IN  IF s # 0 THEN Throw(c1, HostError(s))
      ELSE RetData(c1, [mergeable |-> m])

\* the host answers 405 when the pull request cannot be merged
HostPullsMerge(c, pr, method) ==
  LET s0 == Fault(c)
      s == IF s0 # 0 THEN s0
           ELSE IF c.merged[pr] \/ ~Truthy(c.mergeable[pr]) THEN 405
           ELSE 0
      c1 == Logged(c, "pulls.merge", pr, TextBody(method), s)
  IN  IF s # 0 THEN Throw(c1, HostError(s))
      ELSE Ret([c1 EXCEPT !.merged[pr] = TRUE])

RECURSIVE UpTo(_, _)
\* the members of S below or at n, in increasing order
UpTo(S, n) ==
  IF n = 0 THEN <<>>
  ELSE IF n \in S THEN Append(UpTo(S, n - 1), n) ELSE UpTo(S, n - 1)

\* search.issuesAndPullRequests(`is:pr is:open label:merge-scheduled`)
HostSearch(c) ==
  LET s == Fault(c)
      c1 == Logged(c, "search", 0, TextBody("is:pr is:open label:" \o SCHEDULE_LABEL), s)
      found == UpTo({p \in PRs : c.label[p] /\ ~c.merged[p]}, NumPRs)
      items == [i \in 1..Len(found) |->
                  [number |-> found[i], repository_url |-> c.urls[found[i]]]]
  IN  IF s # 0 THEN Throw(c1, HostError(s))
      ELSE RetData(c1, FirstPage(items))

HostGetComment(c, pr) ==
  LET s == Fault(c)
      c1 == Logged(c, "getComment", pr, NoBody, s)
  IN  IF s # 0 THEN Throw(c1, HostError(s)) ELSE Ret(c1)

HostGetCollaboratorPermissionLevel(c, pr, role) ==
  LET s == Fault(c)
      c1 == Logged(c, "getCollaboratorPermissionLevel", pr, TextBody(role), s)
  IN  IF s # 0 THEN Throw(c1, HostError(s)) ELSE RetData(c1, [permission |-> role])

(***************************************************************************)
(* Control flow of the async functions, on results r.                      *)
(***************************************************************************)
\* const r = await <call>; <rest>: a rejection propagates
Await(r, Rest(_)) == IF r.thrown THEN r ELSE Rest(r)

\* try { <body> } catch (error) { <handler> }
TryCatch(r, Handler(_)) == IF r.thrown THEN Handler(r) ELSE r

\* const r = <call>; <rest>
Bind(r, Rest(_)) == Rest(r)

\* await <call>; throw e
ThenThrow(r, e) == IF r.thrown THEN r ELSE Throw(r.c, e)

(***************************************************************************)
(* utils.js                                                                *)
(***************************************************************************)
createComment(c, pr, body) == HostCreateComment(c, pr, body)

\* mutant: the label is added and no confirmation is posted
storeScheduleInfoLabelOnly(c, pr, scheduleDate) == HostAddLabels(c, pr)

storeScheduleInfo(c, pr, scheduleDate) ==
  Await(HostAddLabels(c, pr),
        LAMBDA a : createComment(a.c, pr, MarkerBody(scheduleDate)))

\* comment.body.includes('@merge-at')
MentionsCommand(body) == Includes(body.text, "@merge-at")

\* the result of Array.prototype.find when nothing is found
Undefined == [id |-> 0, body |-> NoBody]

RECURSIVE FindLast(_)
\* comments.reverse().find(comment => comment.body.includes('@merge-at'))
FindLast(cms) ==
  IF cms = <<>> THEN Undefined
  ELSE IF MentionsCommand(cms[Len(cms)].body) THEN cms[Len(cms)]
  ELSE FindLast(SubSeq(cms, 1, Len(cms) - 1))

\* lines 154-171: the catch logs and rethrows
getLatestScheduleComment(c, pr) ==
  Await(HostListComments(c, pr), LAMBDA l : RetData(l.c, FindLast(l.data)))

RECURSIVE DeleteAll(_, _, _)
\* for (const comment of scheduleComments) await deleteComment(comment.id)
DeleteAll(c, pr, cms) ==
  IF cms = <<>> THEN Ret(c)
  ELSE Await(HostDeleteComment(c, pr, Head(cms).id),
             LAMBDA d : DeleteAll(d.c, pr, Tail(cms)))

\* mutant: a 404 of removeLabel is rethrown like any other rejection
removeScheduleInfoStrict(c, pr) ==
  Await(HostRemoveLabel(c, pr),
        LAMBDA r :
          Await(HostListComments(r.c, pr),
                LAMBDA l : DeleteAll(l.c, pr,
                                     SelectSeq(l.data, LAMBDA cm : HasMarker(cm.body)))))

\* a 404 of removeLabel is ignored, any other rejection propagates
removeScheduleInfo(c, pr) ==
  Await(TryCatch(HostRemoveLabel(c, pr),
                 LAMBDA e : IF e.error.status # 404 THEN e ELSE Ret(e.c)),
        LAMBDA r :
          Await(HostListComments(r.c, pr),
                LAMBDA l : DeleteAll(l.c, pr,
                                     SelectSeq(l.data, LAMBDA cm : HasMarker(cm.body)))))

\* new Date(scheduleInfo.scheduleDate): a day number, or Invalid Date
InvalidDate == -1
ValidDate(t) == t >= 0

\* a comment that includes 'MERGE_SCHEDULE_INFO' and was not built by
\* storeScheduleInfo: `when' tells what its payload is
BadJson == -2
NoPayload == -3
ForgedBody(w) == [kind |-> "marker", text |-> "MERGE_SCHEDULE_INFO", when |-> w]

\* body.match(/MERGE_SCHEDULE_INFO (.+) -->/) finds a payload
PayloadMatches(body) == body.when # NoPayload

\* JSON.parse(match[1]) returns an object
PayloadParses(body) == body.when # BadJson

\* item.repository_url is a non-empty string with at least two parts
RepoUrl == "https://api.github.com/repos/o/r"
UrlValues == {RepoUrl, "", "norepo"}
HasRepo(url) == url # "" /\ Includes(url, "/")

RECURSIVE FirstMarker(_)
\* comments.find(comment => comment.body.includes('MERGE_SCHEDULE_INFO'))
FirstMarker(cms) ==
  IF cms = <<>> THEN <<>>
  ELSE IF HasMarker(Head(cms).body) THEN <<Head(cms)>>
  ELSE FirstMarker(Tail(cms))

\* the entry pushed for item pr whose comments were listed with result l:
\* none when the listing was rejected, no marker is on the page or its
\* date is invalid
ScanEntry(pr, l) ==
  IF l.thrown \/ FirstMarker(l.data) = <<>> THEN <<>>
  ELSE IF ~PayloadMatches(FirstMarker(l.data)[1].body) THEN <<>>
  ELSE IF ~PayloadParses(FirstMarker(l.data)[1].body) THEN <<>>
  ELSE IF ~ValidDate(FirstMarker(l.data)[1].body.when) THEN <<>>
  ELSE << [number |-> pr, scheduleTime |-> FirstMarker(l.data)[1].body.when] >>

RECURSIVE ScanItemsBreak(_, _, _)
\* mutant: an item without repository ends the loop (break for continue)
ScanItemsBreak(c, items, found) ==
  IF items = <<>> THEN RetData(c, found)
  ELSE IF ~HasRepo(Head(items).repository_url) THEN RetData(c, found)
  ELSE Bind(HostListComments(c, Head(items).number),
            LAMBDA l : ScanItemsBreak(l.c, Tail(items),
                                      found \o ScanEntry(Head(items).number, l)))

RECURSIVE ScanItems(_, _, _)
\* for (const item of items) { try { ... } catch { log } }
ScanItems(c, items, found) ==
  IF items = <<>> THEN RetData(c, found)
  ELSE IF ~HasRepo(Head(items).repository_url) THEN ScanItems(c, Tail(items), found)
  ELSE Bind(HostListComments(c, Head(items).number),
            LAMBDA l : ScanItems(l.c, Tail(items),
                                 found \o ScanEntry(Head(items).number, l)))

\* mutant: a rejected search is taken for an empty result
getScheduledPRsSwallow(c) ==
  Bind(HostSearch(c),
       LAMBDA s : IF s.thrown THEN RetData(s.c, <<>>) ELSE ScanItems(s.c, s.data, <<>>))

getScheduledPRs(c) ==
  Await(HostSearch(c), LAMBDA s : ScanItems(s.c, s.data, <<>>))

(***************************************************************************)
(* merge-scheduler.js                                                      *)
(***************************************************************************)
NotMergeableMsg == "PR is not mergeable. There might be conflicts."
NotFoundMsg == "PR not found or you may not have permission to merge."
FailedPrefix == "Failed to merge PR: "
FailBody(msg) == TextBody("(x) " \o FailedPrefix \o msg)

\* lines 24-31: the handler of the fetch and the mergeability test
NotFoundHandler(e, pr) ==
  IF e.error.status = 404
    THEN ThenThrow(createComment(e.c, pr, FailBody(NotFoundMsg)), NewError(NotFoundMsg))
    ELSE e

\* mutant: the mergeability test left out
MergeCheckNoTest(c, pr) ==
  TryCatch(Await(HostPullsGet(c, pr), LAMBDA g : Ret(g.c)),
           LAMBDA e : NotFoundHandler(e, pr))

\* lines 8-32: fetch, mergeability test and the 404 handler
MergeCheck(c, pr) ==
  TryCatch(Await(HostPullsGet(c, pr),
                 LAMBDA g :
                   IF ~Truthy(g.data.mergeable)
                     THEN ThenThrow(createComment(g.c, pr, FailBody(NotMergeableMsg)),
                                    NewError(NotMergeableMsg))
                     ELSE Ret(g.c)),
           LAMBDA e : NotFoundHandler(e, pr))

\* mutant: the host's message is echoed whatever the status
MergeErrorMessageEcho(e) ==
  FailedPrefix \o (IF e.message # "" THEN e.message ELSE "An unexpected error occurred.")

\* lines 54-62: the message of a rejected merge
MergeErrorMessage(e) ==
  FailedPrefix \o
    (IF e.status = 405
       THEN "PR is not mergeable at this time. Please resolve any conflicts or check branch protection rules."
     ELSE IF e.status = 404 THEN NotFoundMsg
     ELSE IF e.message # "" THEN e.message ELSE "An unexpected error occurred.")

\* lines 52-66: the handler of the merge, the success comment and the cleanup
MergeErrorHandler(e, pr) ==
  ThenThrow(createComment(e.c, pr, TextBody("(x) " \o MergeErrorMessage(e.error))),
            NewError(MergeErrorMessage(e.error)))

\* mutant: the cleanup after a successful merge left out
MergeAttemptNoCleanup(c, pr) ==
  TryCatch(Await(HostPullsMerge(c, pr, MERGE_METHOD),
                 LAMBDA m : createComment(m.c, pr, SuccessBody)),
           LAMBDA e : MergeErrorHandler(e, pr))

\* lines 35-67: merge, success comment, cleanup and their handler
MergeAttempt(c, pr) ==
  TryCatch(Await(HostPullsMerge(c, pr, MERGE_METHOD),
                 LAMBDA m : Await(createComment(m.c, pr, SuccessBody),
                                  LAMBDA cc : removeScheduleInfo(cc.c, pr))),
           LAMBDA e : MergeErrorHandler(e, pr))

\* lines 5-67: the two steps inside the outer try
MergeSteps(c, pr) ==
  Await(MergeCheck(c, pr), LAMBDA chk : MergeAttempt(chk.c, pr))

\* mutant: the schedule is cleared when the attempt fails too
mergePRClearOnFailure(c, pr) ==
  TryCatch(MergeSteps(c, pr),
           LAMBDA e : Throw(removeScheduleInfo(e.c, pr).c, e.error))

\* lines 5-77: the outer handler posts once more unless the message says
\* 'Failed to merge PR', and rethrows
mergePR(c, pr) ==
  TryCatch(MergeSteps(c, pr),
           LAMBDA e : IF ~Includes(e.error.message, "Failed to merge PR")
                        THEN ThenThrow(createComment(e.c, pr, FailBody(e.error.message)),
                                       e.error)
                        ELSE e)

\* mutant: the due test written with < instead of <=
IsDueStrict(scheduleTime, t) == ValidDate(scheduleTime) /\ scheduleTime < t

\* mutant: the due test left out, every listed candidate is attempted
IsDueAlways(scheduleTime, t) == ValidDate(scheduleTime)

\* lines 96-98: new Date(pr.scheduleTime) <= now, false for an Invalid Date
IsDue(scheduleTime, t) == ValidDate(scheduleTime) /\ scheduleTime <= t

\* the context after mergePR(pr) ended with m, the attempt recorded
Attempt(c, pr, m) ==
  [m.c EXCEPT !.attempts = Append(@, [pr |-> pr, from |-> Len(c.log) + 1,
                                      to |-> Len(m.c.log), threw |-> m.thrown,
                                      error |-> m.error])]

RECURSIVE SweepLoop(_, _, _)
\* for (const pr of scheduledPRs) { if due: try { mergePR } catch { log } }
SweepLoop(c, prs, t) ==
  IF prs = <<>> THEN Ret(c)
  ELSE IF IsDue(Head(prs).scheduleTime, t)
    THEN SweepLoop(Attempt(c, Head(prs).number, mergePR(c, Head(prs).number)), Tail(prs), t)
    ELSE SweepLoop(c, Tail(prs), t)

RECURSIVE SweepLoopAbort(_, _, _)
SweepLoopAbort(c, prs, t) ==
  IF prs = <<>> THEN Ret(c)
  ELSE IF IsDue(Head(prs).scheduleTime, t)
    THEN Bind(mergePR(c, Head(prs).number),
              LAMBDA m : IF m.thrown THEN Throw(Attempt(c, Head(prs).number, m), m.error)
                         ELSE SweepLoopAbort(Attempt(c, Head(prs).number, m), Tail(prs), t))
    ELSE SweepLoopAbort(c, Tail(prs), t)

\* mutant: no handler around the attempt, the first failure ends the sweep
processScheduledMergesAbort(c, t) ==
  Await(getScheduledPRs(c),
        LAMBDA g : SweepLoopAbort([g.c EXCEPT !.listed = g.data], g.data, t))

processScheduledMerges(c, t) ==
  Await(getScheduledPRs(c),
        LAMBDA g : SweepLoop([g.c EXCEPT !.listed = g.data], g.data, t))

(***************************************************************************)
(* comment-handler.js.  A comment text is abstracted to what the handler   *)
(* computes from it: cancel (it includes CANCEL_COMMAND), match            *)
(* (COMMAND_REGEX matches), wellFormed (date, time and timezone parse) and *)
(* when (the instant the date and time denote).                            *)
(***************************************************************************)
Roles == {"admin", "write", "read"}

\* mutant: a rejected lookup is taken for access
hasWritePermissionAssumeAccess(c, pr, role) ==
  Bind(HostGetCollaboratorPermissionLevel(c, pr, role),
       LAMBDA p : IF p.thrown THEN RetData(p.c, TRUE)
                  ELSE RetData(p.c, p.data.permission \in {"admin", "write"}))

hasWritePermission(c, pr, role) ==
  Bind(HostGetCollaboratorPermissionLevel(c, pr, role),
       LAMBDA p : IF p.thrown THEN RetData(p.c, FALSE)
                  ELSE RetData(p.c, p.data.permission \in {"admin", "write"}))

\* the reason thrown by validateScheduleTime, "" when the instant is accepted
ValidateReason(cmd, t) ==
  IF ~cmd.wellFormed THEN "Invalid time format"
  ELSE IF cmd.when <= t THEN "Scheduled time must be in the future"
  ELSE IF cmd.when > t + ScheduleWindow THEN "Cannot schedule more than 30 days in advance"
  ELSE ""

validateScheduleTime(c, cmd, t) ==
  IF ValidateReason(cmd, t) # ""
    THEN Throw(c, NewError("Invalid date/time format: " \o ValidateReason(cmd, t)))
    ELSE RetData(c, cmd.when)

\* mutant: no inner handler, a failure of the schedule path reaches the
\* outer handler
SchedulePathNoHandler(c, pr, cmd, t) ==
  Await(validateScheduleTime(c, cmd, t),
        LAMBDA v : Await(removeScheduleInfo(v.c, pr),
                         LAMBDA r : storeScheduleInfo(r.c, pr, v.data)))

\* mutant: the old schedule is removed before the command is validated
SchedulePathRemoveFirst(c, pr, cmd, t) ==
  TryCatch(Await(removeScheduleInfo(c, pr),
                 LAMBDA r : Await(validateScheduleTime(r.c, cmd, t),
                                  LAMBDA v : storeScheduleInfo(v.c, pr, v.data))),
           LAMBDA e : createComment(e.c, pr, TextBody("(x) " \o e.error.message)))

\* lines 137-163: validate, remove the old schedule, store the new one
SchedulePath(c, pr, cmd, t) ==
  TryCatch(Await(validateScheduleTime(c, cmd, t),
                 LAMBDA v : Await(removeScheduleInfo(v.c, pr),
                                  LAMBDA r : storeScheduleInfo(r.c, pr, v.data))),
           LAMBDA e : createComment(e.c, pr, TextBody("(x) " \o e.error.message)))

\* mutant: the cancel path posts its reply without removing the schedule
CommentBodyCancelKeeps(c, pr, cmd, role, t) ==
  Await(HostGetComment(c, pr),
        LAMBDA g :
          Bind(hasWritePermission(g.c, pr, role),
               LAMBDA h :
                 IF ~h.data THEN createComment(h.c, pr, DeniedBody)
                 ELSE IF cmd.cancel THEN createComment(h.c, pr, CancelledBody)
                 ELSE IF ~cmd.match THEN createComment(h.c, pr, UsageBody)
                 ELSE SchedulePath(h.c, pr, cmd, t)))

\* mutant: the schedule pattern is matched before the cancel command is
\* looked for
CommentBodyScheduleFirst(c, pr, cmd, role, t) ==
  Await(HostGetComment(c, pr),
        LAMBDA g :
          Bind(hasWritePermission(g.c, pr, role),
               LAMBDA h :
                 IF ~h.data THEN createComment(h.c, pr, DeniedBody)
                 ELSE IF cmd.match THEN SchedulePath(h.c, pr, cmd, t)
                 ELSE IF cmd.cancel
                   THEN Await(removeScheduleInfo(h.c, pr),
                              LAMBDA r : createComment(r.c, pr, CancelledBody))
                 ELSE createComment(h.c, pr, UsageBody)))

\* lines 100-163: the body of the outer try
CommentBody(c, pr, cmd, role, t) ==
  Await(HostGetComment(c, pr),
        LAMBDA g :
          Bind(hasWritePermission(g.c, pr, role),
               LAMBDA h :
                 IF ~h.data THEN createComment(h.c, pr, DeniedBody)
                 ELSE IF cmd.cancel
                   THEN Await(removeScheduleInfo(h.c, pr),
                              LAMBDA r : createComment(r.c, pr, CancelledBody))
                 ELSE IF ~cmd.match THEN createComment(h.c, pr, UsageBody)
                 ELSE SchedulePath(h.c, pr, cmd, t)))

handleComment(c, pr, cmd, role, t) ==
  TryCatch(CommentBody(c, pr, cmd, role, t),
           LAMBDA e : createComment(e.c, pr, GenericBody))

(***************************************************************************)
(* validateScheduleTime on the text.  A date and time string is held by    *)
(* what its characters say: whether a date token is there and which day it *)
(* names (BadDate: digits that name no calendar day), whether a time token *)
(* is there, whether it has the shape digits:digits, its hour and minute   *)
(* numbers, the letters after it (meridiem, "" for none) and whether a     *)
(* space separates them.  Instants are minutes; day d starts at            *)
(* d * MinutesPerDay.                                                      *)
(***************************************************************************)
MinutesPerDay == 1440
BadDate == -1

\* String.prototype.toUpperCase on the letters after the time
ToUpperCase(m) ==
  CASE m \in {"AM", "am", "Am", "aM"} -> "AM"
    [] m \in {"PM", "pm", "Pm", "pM"} -> "PM"
    [] OTHER -> m

\* lines 29-33: dateStr.trim().split(/\s+/), the kinds of the tokens
Tokens(in) ==
  (IF in.hasDate THEN <<"date">> ELSE <<>>) \o
  (IF in.hasTime THEN <<"time">> ELSE <<>>) \o
  (IF in.hasTime /\ in.spaced /\ in.meridiem # "" THEN <<"meridiem">> ELSE <<>>)

\* lines 35-37: !datePart || !timeWithMeridiem
PartsMissing(in) == Len(Tokens(in)) < 2

\* lines 40-45: timeStr.match(/^(\d{1,2}):(\d{2})(AM|PM)?$/i) on the time
\* parts joined, spaces removed, in upper case
TimeMatch(in) ==
  /\ Tokens(in)[2] = "time"
  /\ in.shape
  /\ ToUpperCase(in.meridiem) \in {"", "AM", "PM"}

\* lines 51-55 and 69-72: the ranges of the 12-hour and the 24-hour form
RangeOk(in) ==
  IF in.meridiem # ""
    THEN in.hours >= 1 /\ in.hours <= 12 /\ in.minutes >= 0 /\ in.minutes <= 59
    ELSE in.hours >= 0 /\ in.hours <= 23 /\ in.minutes >= 0 /\ in.minutes <= 59

\* mutant: 12 AM is taken for noon
Hour24NoMidnight(in) ==
  IF in.meridiem = "" THEN in.hours
  ELSE IF ToUpperCase(in.meridiem) = "PM" /\ in.hours # 12 THEN in.hours + 12
  ELSE in.hours

\* lines 57-64: the hour of the day
Hour24(in) ==
  IF in.meridiem = "" THEN in.hours
  ELSE IF ToUpperCase(in.meridiem) = "PM" /\ in.hours # 12 THEN in.hours + 12
  ELSE IF ToUpperCase(in.meridiem) # "PM" /\ in.hours = 12 THEN 0
  ELSE in.hours

\* the timezones date-fns-tz knows, and their offset from UTC in minutes on
\* the days of the model (January: New York is at UTC-5)
KnownZones == {"UTC", "America/New_York"}
TzOffset(tz) == IF tz = "America/New_York" THEN -300 ELSE 0

\* the default of the timezone parameter
ZoneOf(tz) == IF tz = "" THEN "UTC" ELSE tz

\* mutant: the wall-clock time is taken for UTC in every timezone
zonedTimeToUtcIgnoreZone(in) ==
  IF ~in.hasDate \/ in.date = BadDate \/ ZoneOf(in.tz) \notin KnownZones
    THEN [valid |-> FALSE, time |-> 0]
    ELSE [valid |-> TRUE,
          time |-> in.date * MinutesPerDay + Hour24(in) * 60 + in.minutes]

\* zonedTimeToUtc(`${datePart} ${time24}`, timezone): the instant at which
\* the clocks of the timezone show that date and time, or Invalid Date
zonedTimeToUtc(in) ==
  IF ~in.hasDate \/ in.date = BadDate \/ ZoneOf(in.tz) \notin KnownZones
    THEN [valid |-> FALSE, time |-> 0]
    ELSE [valid |-> TRUE,
          time |-> in.date * MinutesPerDay + Hour24(in) * 60 + in.minutes
                     - TzOffset(ZoneOf(in.tz))]

\* what date-fns-tz does with a timezone it does not know: it returns an
\* Invalid Date or throws a RangeError, depending on its version
LibBehaviours == {"invalid", "throws"}

\* mutant: the window test written with >= instead of >
WindowReasonStrict(d, t) ==
  IF d <= t THEN "Scheduled time must be in the future"
  ELSE IF d >= t + ScheduleWindow * MinutesPerDay
    THEN "Cannot schedule more than 30 days in advance"
  ELSE ""

\* lines 80-88: date <= now, date > addDays(now, 30)
WindowReason(d, t) ==
  IF d <= t THEN "Scheduled time must be in the future"
  ELSE IF d > t + ScheduleWindow * MinutesPerDay
    THEN "Cannot schedule more than 30 days in advance"
  ELSE ""

\* mutant: the range of the hour and the minute is not tested
TextReasonNoRange(in, t, lib) ==
  IF PartsMissing(in) THEN "Date and time must be provided"
  ELSE IF ~TimeMatch(in) THEN "Invalid time format"
  ELSE IF ZoneOf(in.tz) \notin KnownZones /\ in.date # BadDate /\ lib = "throws"
    THEN "Invalid time zone specified"
  ELSE IF ~zonedTimeToUtc(in).valid THEN "Invalid date format"
  ELSE WindowReason(zonedTimeToUtc(in).time, t)

\* mutant: the future and window tests come before the date is validated
TextReasonWindowFirst(in, t, lib) ==
  IF PartsMissing(in) THEN "Date and time must be provided"
  ELSE IF ~TimeMatch(in) \/ ~RangeOk(in) THEN "Invalid time format"
  ELSE IF WindowReason(zonedTimeToUtc(in).time, t) # ""
    THEN WindowReason(zonedTimeToUtc(in).time, t)
  ELSE IF ~zonedTimeToUtc(in).valid THEN "Invalid date format"
  ELSE ""

\* lines 27-90: the message of the first check that fails, "" when none
TextReason(in, t, lib) ==
  IF PartsMissing(in) THEN "Date and time must be provided"
  ELSE IF ~TimeMatch(in) \/ ~RangeOk(in) THEN "Invalid time format"
  ELSE IF ZoneOf(in.tz) \notin KnownZones /\ in.date # BadDate /\ lib = "throws"
    THEN "Invalid time zone specified"
  ELSE IF ~zonedTimeToUtc(in).valid THEN "Invalid date format"
  ELSE WindowReason(zonedTimeToUtc(in).time, t)

\* lines 26-94: the instant, or the rejection with the wrapped message
validateScheduleTimeText(in, t, lib) ==
  IF TextReason(in, t, lib) # ""
    THEN [thrown |-> TRUE,
          message |-> "Invalid date/time format: " \o TextReason(in, t, lib),
          date |-> 0]
    ELSE [thrown |-> FALSE, message |-> "", date |-> zonedTimeToUtc(in).time]

\* line 7: COMMAND_REGEX.exec(commentBody) on '@merge-at <date> <time>
\* <letters> <timezone>'.  The optional group after the time takes only
\* AM, PM, am and pm; any other letters are left to the timezone group
\* ([\w/]+), which then takes them in place of the timezone that follows.
CommandMatch(in) ==
  IF ~(in.hasDate /\ in.hasTime /\ in.shape)
    THEN [matched |-> FALSE, args |-> in]
  ELSE IF in.meridiem \in {"", "AM", "PM", "am", "pm"}
    THEN [matched |-> TRUE, args |-> in]
  ELSE [matched |-> TRUE,
        args |-> [in EXCEPT !.meridiem = "", !.spaced = FALSE, !.tz = in.meridiem]]

\* lines 137-163 on the text: validate, remove the old schedule, store
SchedulePathText(c, pr, in, t, lib) ==
  IF validateScheduleTimeText(in, t, lib).thrown
    THEN createComment(c, pr,
           TextBody("(x) " \o validateScheduleTimeText(in, t, lib).message))
    ELSE TryCatch(Await(removeScheduleInfo(c, pr),
                        LAMBDA r : storeScheduleInfo(r.c, pr,
                                     validateScheduleTimeText(in, t, lib).date)),
                  LAMBDA e : createComment(e.c, pr, TextBody("(x) " \o e.error.message)))

\* lines 96-170 on the text of a comment that is no cancel command
handleCommentText(c, pr, in, role, t, lib) ==
  TryCatch(Await(HostGetComment(c, pr),
                 LAMBDA g :
                   Bind(hasWritePermission(g.c, pr, role),
                        LAMBDA h :
                          IF ~h.data THEN createComment(h.c, pr, DeniedBody)
                          ELSE IF ~CommandMatch(in).matched
                            THEN createComment(h.c, pr, UsageBody)
                          ELSE SchedulePathText(h.c, pr, CommandMatch(in).args, t, lib))),
           LAMBDA e : createComment(e.c, pr, GenericBody))

(***************************************************************************)
(* The state machine.  An invocation (CommentEvent, Sweep) is one action;  *)
(* `last' records it until the workflow run ends (Finish): its inputs, the *)
(* host state before it, the host calls it made and how it ended.  `clean' *)
(* holds while every invocation so far was a valid schedule or cancel      *)
(* command of an authorized author, or a sweep, with no host call rejected *)
(* by a fault.  `cancelled' holds the PRs whose latest completed cancel     *)
(* command (the cancelled comment was posted) was followed by no schedule  *)
(* command that began to store a schedule.                                 *)
(***************************************************************************)
Ctx(plan, mg) ==
  [label |-> label, earlier |-> earlier, comments |-> comments, merged |-> merged,
   mergeable |-> mg, urls |-> [p \in PRs |-> RepoUrl],
   nextId |-> nextId, plan |-> plan, log |-> <<>>, attempts |-> <<>>, listed |-> <<>>]

AllMergeable == [p \in PRs |-> "true"]

NoCmd == [cancel |-> FALSE, match |-> FALSE, wellFormed |-> FALSE, when |-> 0]
CancelCmd == [cancel |-> TRUE, match |-> FALSE, wellFormed |-> FALSE, when |-> 0]
ScheduleCmd(w) == [cancel |-> FALSE, match |-> TRUE, wellFormed |-> TRUE, when |-> w]

\* the comment texts an event can carry at time t
Cmds(t) == {NoCmd, CancelCmd} \cup {ScheduleCmd(w) : w \in {t, t + 1, t + 2}}

ValidCmd(cmd, t) == cmd.cancel \/ (cmd.match /\ ValidateReason(cmd, t) = "")

MaxOrd(plan) == IF plan = {} THEN 0 ELSE CHOOSE n \in {f[1] : f \in plan} : \A f \in plan : f[1] <= n

\* the statuses a rejected call can answer: 500, and the statuses the code
\* tells apart (error.status === 404, mergeError.status === 405)
ErrStatus(op) ==
  CASE op = "pulls.merge" -> {404, 405, 500}
    [] op \in {"pulls.get", "removeLabel", "createComment"} -> {404, 500}
    [] OTHER -> {500}

RECURSIVE CommentPlans(_, _, _, _, _, _)
\* the fault plans with at most k more faults, each rejecting a call the
\* invocation really makes
CommentPlans(c, pr, cmd, role, plan, k) ==
  IF k = 0 THEN {plan}
  ELSE LET log == handleComment([c EXCEPT !.plan = plan], pr, cmd, role, now).c.log
       IN  {plan} \cup UNION {CommentPlans(c, pr, cmd, role, plan \cup {f}, k - 1) :
                                f \in {g \in ((MaxOrd(plan) + 1)..Len(log)) \X {404, 405, 500} :
                                         g[2] \in ErrStatus(log[g[1]].op)}}

RECURSIVE SweepPlans(_, _, _)
SweepPlans(c, plan, k) ==
  IF k = 0 THEN {plan}
  ELSE LET log == processScheduledMerges([c EXCEPT !.plan = plan], now).c.log
       IN  {plan} \cup UNION {SweepPlans(c, plan \cup {f}, k - 1) :
                                f \in {g \in ((MaxOrd(plan) + 1)..Len(log)) \X {404, 405, 500} :
                                         g[2] \in ErrStatus(log[g[1]].op)}}

Idle == [op |-> "idle", pr |-> 0, cmd |-> NoCmd, role |-> "none", plan |-> {},
         now |-> 0, preLabel |-> <<>>, preComments |-> <<>>, preMerged |-> <<>>,
         post |-> <<>>, urls |-> <<>>,
         log |-> <<>>, attempts |-> <<>>, listed |-> <<>>, threw |-> FALSE]

\* the text of the comment that triggers the event
TriggerBody(cmd) ==
  TextBody(IF cmd.cancel THEN CANCEL_COMMAND
           ELSE IF cmd.match THEN "@merge-at YYYY-MM-DD HH:mm" ELSE "@merge-at soon")

(***************************************************************************)
(* Initial states: each PR is open, has none or PerPage - 1 earlier        *)
(* comments, and is either unscheduled or carries the schedule that one    *)
(* accepted command at day 0 stored (trigger comment, label, marker).      *)
(***************************************************************************)
InitFill == {0, PerPage - 1}
InitWhen == {0, 1, 2}

InitComments(p, w) ==
  IF w = 0 THEN <<>>
  ELSE << [id |-> 2 * p - 1, body |-> TriggerBody(ScheduleCmd(w))],
          [id |-> 2 * p, body |-> MarkerBody(w)] >>

\* no interleaved invocations are in progress
NoRace == [pr |-> 0, procs |-> <<>>]

\* no function has been called on its own
NoCall == [op |-> "none"]

\* no sweep is in progress step by step
NoSweep == [stage |-> "off"]

Init ==
  /\ now = 0
  /\ earlier \in [PRs -> InitFill]
  /\ \E w \in [PRs -> InitWhen] :
       /\ label = [p \in PRs |-> w[p] # 0]
       /\ comments = [p \in PRs |-> InitComments(p, w[p])]
  /\ merged = [p \in PRs |-> FALSE]
  /\ nextId = 2 * NumPRs + 1
  /\ events = 0
  /\ clean = TRUE
  /\ cancelled = {}
  /\ last = Idle
  /\ race = NoRace
  /\ call = NoCall
  /\ pushed = {}
  /\ running = NoSweep

Install(c) ==
  /\ label' = c.label
  /\ comments' = c.comments
  /\ merged' = c.merged
  /\ nextId' = c.nextId

\* the invocation that ended with r posted the cancelled comment
CancelCompleted(r) ==
  /\ ~r.thrown
  /\ \E k \in 1..Len(r.c.log) :
       /\ r.c.log[k].op = "createComment"
       /\ r.c.log[k].body = CancelledBody
       /\ r.c.log[k].status = 0

\* the invocation that ended with r called storeScheduleInfo
StoreBegun(r) == \E k \in 1..Len(r.c.log) : r.c.log[k].op = "addLabels"

\* an issue_comment event: the comment exists on the PR, then run() calls
\* handleComment in mode 'comment'
\* at most n events in the behaviour, at most k rejected calls in the event
CommentEventWithin(pr, cmd, role, n, k) ==
  /\ last.op = "idle"
  /\ events < n
  /\ LET c0 == Ctx({}, AllMergeable)
         c1 == [c0 EXCEPT !.comments[pr] = Append(@, [id |-> nextId, body |-> TriggerBody(cmd)]),
                          !.nextId = @ + 1]
     IN  \E plan \in CommentPlans(c1, pr, cmd, role, {}, k) :
           LET r == handleComment([c1 EXCEPT !.plan = plan], pr, cmd, role, now)
           IN  /\ Install(r.c)
               /\ last' = [op |-> "handleComment", pr |-> pr, cmd |-> cmd, role |-> role,
                           plan |-> plan, now |-> now,
                           preLabel |-> label, preComments |-> c1.comments,
                           preMerged |-> merged,
                           post |-> <<>>, urls |-> <<>>,
                           log |-> r.c.log, attempts |-> <<>>, listed |-> <<>>,
                           threw |-> r.thrown]
               /\ clean' = (clean /\ plan = {} /\ role \in {"admin", "write"} /\ ValidCmd(cmd, now))
               /\ cancelled' = IF CancelCompleted(r) THEN cancelled \cup {pr}
                                ELSE IF StoreBegun(r) THEN cancelled \ {pr}
                                ELSE cancelled
  /\ events' = events + 1
  /\ UNCHANGED <<now, earlier, race, call, pushed, running>>

CommentEvent(pr, cmd, role) == CommentEventWithin(pr, cmd, role, MaxEvents, MaxFaults)

\* the PRs a sweep at time t would attempt when no host call is rejected
DueNow(t) ==
  LET g == getScheduledPRs(Ctx({}, AllMergeable))
  IN  {g.data[i].number : i \in {j \in 1..Len(g.data) : g.data[j].scheduleTime <= t}}

\* a schedule event: run() calls processScheduledMerges in mode
\* 'scheduler'; mg is the mergeability the host reports during the sweep
SweepWithin(n) ==
  /\ last.op = "idle"
  /\ events < n
  /\ \E mg \in [PRs -> MergeableValues] :
       /\ \A p \in PRs \ DueNow(now) : mg[p] = "true"
       /\ \E plan \in SweepPlans(Ctx({}, mg), {}, MaxFaults) :
            LET r == processScheduledMerges(Ctx(plan, mg), now)
            IN  /\ Install(r.c)
                /\ last' = [op |-> "sweep", pr |-> 0, cmd |-> NoCmd, role |-> "none",
                            plan |-> plan, now |-> now,
                            preLabel |-> label, preComments |-> comments,
                            preMerged |-> merged, urls |-> <<>>,
                            post |-> getScheduledPRs([r.c EXCEPT !.plan = {}, !.log = <<>>]).data,
                            log |-> r.c.log, attempts |-> r.c.attempts, listed |-> r.c.listed,
                            threw |-> r.thrown]
                /\ clean' = (clean /\ plan = {})
  /\ events' = events + 1
  /\ UNCHANGED <<now, earlier, cancelled, race, call, pushed, running>>

Sweep == SweepWithin(MaxEvents)

\* the workflow run ends
Finish ==
  /\ last.op # "idle"
  /\ last' = Idle
  /\ UNCHANGED <<now, label, earlier, comments, merged, nextId, events, clean, cancelled, race, call, pushed, running>>

Tick ==
  /\ last.op = "idle"
  /\ now < MaxNow
  /\ now' = now + 1
  /\ UNCHANGED <<label, earlier, comments, merged, nextId, events, last, clean, cancelled, race, call, pushed, running>>

Next ==
  \/ \E pr \in PRs, role \in Roles : \E cmd \in Cmds(now) : CommentEvent(pr, cmd, role)
  \/ Sweep
  \/ Finish
  \/ Tick

Spec == Init /\ [][Next]_vars

(***************************************************************************)
(* Serialized invocations one after the other, on PRs that all carry a     *)
(* schedule at the start.                                                  *)
(***************************************************************************)
SerialEvents == 2

InitSerial == Init /\ \A p \in PRs : label[p]

NextSerial ==
  \/ \E pr \in PRs, role \in Roles : \E cmd \in Cmds(now) :
       CommentEventWithin(pr, cmd, role, SerialEvents, MaxFaults)
  \/ SweepWithin(SerialEvents)
  \/ Finish
  \/ Tick

SpecSerial == InitSerial /\ [][NextSerial]_vars

(***************************************************************************)
(* Comment events in which up to ReplyFaults host calls are rejected: a    *)
(* call of the handler, and the call that posts the reply to its failure.  *)
(***************************************************************************)
ReplyFaults == 2

NextFaulty ==
  \/ \E pr \in PRs, role \in Roles : \E cmd \in Cmds(now) :
       CommentEventWithin(pr, cmd, role, MaxEvents, ReplyFaults)
  \/ Finish
  \/ Tick

SpecFaulty == Init /\ [][NextFaulty]_vars

(***************************************************************************)
(* Comment events whose text is no cancel and no valid schedule command:   *)
(* no match of COMMAND_REGEX, a time that does not parse, an instant not   *)
(* in the future, an instant past the window.                              *)
(***************************************************************************)
MalformedCmd == [cancel |-> FALSE, match |-> TRUE, wellFormed |-> FALSE, when |-> 0]

InvalidCmds(t) ==
  {NoCmd, MalformedCmd, ScheduleCmd(t), ScheduleCmd(t + ScheduleWindow + 1)}

NextInvalid ==
  \/ \E pr \in PRs, role \in Roles : \E cmd \in InvalidCmds(now) :
       CommentEventWithin(pr, cmd, role, MaxEvents, MaxFaults)
  \/ Finish
  \/ Tick

SpecInvalid == Init /\ [][NextInvalid]_vars

(***************************************************************************)
(* getScheduledPRs on what the host can answer: search items with or       *)
(* without a repository reference, PRs whose first comment that includes   *)
(* 'MERGE_SCHEDULE_INFO' was stored by storeScheduleInfo or written by     *)
(* hand, listings rejected by the host.                                    *)
(***************************************************************************)
ListedComments(p) ==
  { <<>>,
    << [id |-> 2 * p - 1, body |-> TriggerBody(ScheduleCmd(1))] >>,
    << [id |-> 2 * p - 1, body |-> MarkerBody(1)] >>,
    << [id |-> 2 * p - 1, body |-> ForgedBody(NoPayload)] >>,
    << [id |-> 2 * p - 1, body |-> ForgedBody(BadJson)] >>,
    << [id |-> 2 * p - 1, body |-> ForgedBody(InvalidDate)] >>,
    << [id |-> 2 * p - 1, body |-> ForgedBody(BadJson)],
       [id |-> 2 * p, body |-> MarkerBody(2)] >> }

InitList ==
  /\ now = 0
  /\ earlier = [p \in PRs |-> 0]
  /\ label \in [PRs -> BOOLEAN]
  /\ \E cs \in [PRs -> UNION {ListedComments(p) : p \in PRs}] :
       /\ \A p \in PRs : cs[p] \in ListedComments(p)
       /\ comments = cs
  /\ merged = [p \in PRs |-> FALSE]
  /\ nextId = 2 * NumPRs + 1
  /\ events = 0
  /\ clean = TRUE
  /\ cancelled = {}
  /\ last = Idle
  /\ race = NoRace
  /\ call = NoCall
  /\ pushed = {}
  /\ running = NoSweep

RECURSIVE ListPlans(_, _, _)
ListPlans(c, plan, k) ==
  IF k = 0 THEN {plan}
  ELSE {plan} \cup
       UNION {ListPlans(c, plan \cup {f}, k - 1) :
                f \in {g \in ((MaxOrd(plan) + 1)..Len(getScheduledPRs([c EXCEPT !.plan = plan]).c.log))
                                \X {500} : TRUE}}

\* getScheduledPRs is called; urls are the repository references of the
\* search items
ListEvent ==
  /\ last.op = "idle"
  /\ events < MaxEvents
  /\ \E urls \in [PRs -> UrlValues] :
       \E plan \in ListPlans([Ctx({}, AllMergeable) EXCEPT !.urls = urls], {}, MaxFaults) :
         /\ Install(getScheduledPRs([Ctx(plan, AllMergeable) EXCEPT !.urls = urls]).c)
         /\ last' = [Idle EXCEPT
                       !.op = "list", !.plan = plan, !.now = now, !.urls = urls,
                       !.preLabel = label, !.preComments = comments, !.preMerged = merged,
                       !.log = getScheduledPRs([Ctx(plan, AllMergeable) EXCEPT !.urls = urls]).c.log,
                       !.threw = getScheduledPRs([Ctx(plan, AllMergeable) EXCEPT !.urls = urls]).thrown,
                       !.post = IF getScheduledPRs([Ctx(plan, AllMergeable) EXCEPT !.urls = urls]).thrown
                                  THEN <<>>
                                ELSE getScheduledPRs([Ctx(plan, AllMergeable) EXCEPT !.urls = urls]).data]
  /\ events' = events + 1
  /\ UNCHANGED <<now, earlier, clean, cancelled, race, call, pushed, running>>

NextList == ListEvent \/ Finish

SpecList == InitList /\ [][NextList]_vars

(***************************************************************************)
(* removeScheduleInfo on a PR with or without the label, with none, one or *)
(* two marker comments, after none or PerPage - 1 earlier comments.        *)
(***************************************************************************)
RemovableComments(p) ==
  { <<>>,
    << [id |-> 3 * p - 2, body |-> TriggerBody(ScheduleCmd(1))],
       [id |-> 3 * p - 1, body |-> MarkerBody(1)] >>,
    << [id |-> 3 * p - 2, body |-> MarkerBody(1)],
       [id |-> 3 * p - 1, body |-> TriggerBody(ScheduleCmd(2))],
       [id |-> 3 * p, body |-> MarkerBody(2)] >> }

InitRemove ==
  /\ now = 0
  /\ earlier \in [PRs -> InitFill]
  /\ label \in [PRs -> BOOLEAN]
  /\ \E cs \in [PRs -> UNION {RemovableComments(p) : p \in PRs}] :
       /\ \A p \in PRs : cs[p] \in RemovableComments(p)
       /\ comments = cs
  /\ merged = [p \in PRs |-> FALSE]
  /\ nextId = 3 * NumPRs + 1
  /\ events = 0
  /\ clean = TRUE
  /\ cancelled = {}
  /\ last = Idle
  /\ race = NoRace
  /\ call = NoCall
  /\ pushed = {}
  /\ running = NoSweep

RECURSIVE RemovePlans(_, _, _, _)
RemovePlans(c, pr, plan, k) ==
  IF k = 0 THEN {plan}
  ELSE LET log == removeScheduleInfo([c EXCEPT !.plan = plan], pr).c.log
       IN  {plan} \cup UNION {RemovePlans(c, pr, plan \cup {f}, k - 1) :
                                f \in {g \in ((MaxOrd(plan) + 1)..Len(log)) \X {404, 405, 500} :
                                         g[2] \in ErrStatus(log[g[1]].op)}}

\* removeScheduleInfo is called on pr
RemoveEvent(pr) ==
  /\ last.op = "idle"
  /\ events < MaxEvents
  /\ \E plan \in RemovePlans(Ctx({}, AllMergeable), pr, {}, MaxFaults) :
       LET r == removeScheduleInfo(Ctx(plan, AllMergeable), pr)
       IN  /\ Install(r.c)
           /\ last' = [Idle EXCEPT
                         !.op = "remove", !.pr = pr, !.plan = plan, !.now = now,
                         !.preLabel = label, !.preComments = comments,
                         !.preMerged = merged, !.log = r.c.log, !.threw = r.thrown]
  /\ events' = events + 1
  /\ UNCHANGED <<now, earlier, clean, cancelled, race, call, pushed, running>>

NextRemove == (\E pr \in PRs : RemoveEvent(pr)) \/ Finish

SpecRemove == InitRemove /\ [][NextRemove]_vars

(***************************************************************************)
(* Two handleComment invocations on the same PR, interleaved host call by  *)
(* host call.  Both handle a valid schedule command of an author with      *)
(* write access; no host call is rejected by a fault.  race.procs[i] holds *)
(* the position of invocation i (pc: the host call it makes next), the     *)
(* instant of its command (when), the marker comments it still has to      *)
(* delete (todo) and the error its inner handler caught (error).           *)
(***************************************************************************)
Procs == 1..2
RaceWhen == {1, 2}

Proc(w) == [pc |-> "getComment", when |-> w, todo |-> <<>>, error |-> NoError]

InitRace ==
  /\ now = 0
  /\ earlier = [p \in PRs |-> 0]
  /\ merged = [p \in PRs |-> FALSE]
  /\ events = 0
  /\ clean = TRUE
  /\ cancelled = {}
  /\ last = Idle
  /\ \E w \in [PRs -> InitWhen], pr \in PRs, ws \in [Procs -> RaceWhen] :
       /\ label = [p \in PRs |-> w[p] # 0]
       /\ comments = [p \in PRs |->
                        IF p # pr THEN InitComments(p, w[p])
                        ELSE InitComments(p, w[p]) \o
                             [i \in Procs |-> [id |-> 2 * NumPRs + i,
                                               body |-> TriggerBody(ScheduleCmd(ws[i]))]]]
       /\ race = [pr |-> pr, procs |-> [i \in Procs |-> Proc(ws[i])]]
  /\ nextId = 2 * NumPRs + 3
  /\ call = NoCall
  /\ pushed = {}
  /\ running = NoSweep

\* the host as invocation i finds it for its next call
RaceCtx == Ctx({}, AllMergeable)

At(i, pc) == race.pr # 0 /\ race.procs[i].pc = pc

Goto(i, pc) == race' = [race EXCEPT !.procs[i].pc = pc]

Frame == UNCHANGED <<now, earlier, events, last, clean, cancelled, call, pushed, running>>

\* line 102: issues.getComment
RaceGetComment(i) ==
  /\ At(i, "getComment")
  /\ Install(HostGetComment(RaceCtx, race.pr).c)
  /\ Goto(i, "permission")
  /\ Frame

\* lines 111-137: hasWritePermission, the command matches and validates
RacePermission(i) ==
  /\ At(i, "permission")
  /\ hasWritePermission(RaceCtx, race.pr, "write").data
  /\ ~validateScheduleTime(RaceCtx, ScheduleCmd(race.procs[i].when), now).thrown
  /\ Install(hasWritePermission(RaceCtx, race.pr, "write").c)
  /\ Goto(i, "removeLabel")
  /\ Frame

\* removeScheduleInfo: issues.removeLabel, a 404 ignored
RaceRemoveLabel(i) ==
  /\ At(i, "removeLabel")
  /\ Install(HostRemoveLabel(RaceCtx, race.pr).c)
  /\ Goto(i, "listComments")
  /\ Frame

\* removeScheduleInfo: issues.listComments and the filter on the marker
RaceListComments(i) ==
  /\ At(i, "listComments")
  /\ Install(HostListComments(RaceCtx, race.pr).c)
  /\ race' = [race EXCEPT
                !.procs[i].todo = Markers(HostListComments(RaceCtx, race.pr).data),
                !.procs[i].pc = IF Markers(HostListComments(RaceCtx, race.pr).data) = <<>>
                                  THEN "addLabels" ELSE "deleteComment"]
  /\ Frame

\* removeScheduleInfo: issues.deleteComment of the next marker listed; a
\* rejection (the comment is gone) is caught by the inner handler
RaceDeleteComment(i) ==
  /\ At(i, "deleteComment")
  /\ Install(HostDeleteComment(RaceCtx, race.pr, Head(race.procs[i].todo).id).c)
  /\ race' = [race EXCEPT
                !.procs[i].todo = Tail(@),
                !.procs[i].error =
                   HostDeleteComment(RaceCtx, race.pr, Head(race.procs[i].todo).id).error,
                !.procs[i].pc =
                   IF HostDeleteComment(RaceCtx, race.pr, Head(race.procs[i].todo).id).thrown
                     THEN "report"
                   ELSE IF Tail(race.procs[i].todo) = <<>> THEN "addLabels"
                   ELSE "deleteComment"]
  /\ Frame

\* storeScheduleInfo: issues.addLabels
RaceAddLabels(i) ==
  /\ At(i, "addLabels")
  /\ Install(HostAddLabels(RaceCtx, race.pr).c)
  /\ Goto(i, "createMarker")
  /\ Frame

\* storeScheduleInfo: createComment of the marker comment
RaceCreateMarker(i) ==
  /\ At(i, "createMarker")
  /\ Install(createComment(RaceCtx, race.pr, MarkerBody(race.procs[i].when)).c)
  /\ Goto(i, "done")
  /\ Frame

\* lines 160-163: the inner handler posts the message of the error
RaceReport(i) ==
  /\ At(i, "report")
  /\ Install(createComment(RaceCtx, race.pr,
                           TextBody("(x) " \o race.procs[i].error.message)).c)
  /\ Goto(i, "done")
  /\ Frame

NextRace ==
  \E i \in Procs :
    \/ RaceGetComment(i)
    \/ RacePermission(i)
    \/ RaceRemoveLabel(i)
    \/ RaceListComments(i)
    \/ RaceDeleteComment(i)
    \/ RaceAddLabels(i)
    \/ RaceCreateMarker(i)
    \/ RaceReport(i)

SpecRace == InitRace /\ [][NextRace]_vars

(***************************************************************************)
(* validateScheduleTime and handleComment called on texts.  The clock      *)
(* reads day 0, 12:00 UTC; the PR of the comment is PR 1, open    *)
(* and unscheduled.  call holds the call and its outcome.                  *)
(***************************************************************************)
MaxHour == 25
Minutes == {0, 30, 59, 60}
Days == {BadDate, 0, 1, 30, 31}
Spellings == {"", "AM", "am", "Am", "aM", "PM", "pm", "Pm", "pM", "XM"}
Zones == {"", "UTC", "America/New_York", "Mars/Olympus"}
ParseNows == {12 * 60}

\* the letters after the time, and whether a space precedes them
MeridiemForms ==
  {<<"", FALSE>>} \cup {<<mer, sp>> : mer \in Spellings \ {""}, sp \in BOOLEAN}

\* a date and time string with both tokens
FullText(d, h, m, mer, sp, tz) ==
  [hasDate |-> TRUE, date |-> d, hasTime |-> TRUE, shape |-> TRUE,
   hours |-> h, minutes |-> m, meridiem |-> mer, spaced |-> sp, tz |-> tz]

\* the strings validateScheduleTime is called on: full ones, and ones with
\* a token missing or a time that is not digits:digits
TimeTexts ==
  {FullText(d, h, m, f[1], f[2], tz) :
     d \in Days, h \in 0..MaxHour, m \in Minutes, f \in MeridiemForms, tz \in Zones}
  \cup {[FullText(d, 14, 30, mer, mer # "", "UTC") EXCEPT !.shape = FALSE] :
          d \in Days, mer \in Spellings}
  \cup {[FullText(d, 14, 30, "", FALSE, "UTC") EXCEPT !.hasTime = FALSE] : d \in Days}
  \cup {[FullText(BadDate, 14, 30, mer, mer # "", "UTC") EXCEPT !.hasDate = FALSE] :
          mer \in Spellings}

\* the behaviour of the library matters for unknown timezones only
LibsFor(in) ==
  IF ZoneOf(in.tz) \in KnownZones THEN {"invalid"} ELSE LibBehaviours

InitParse ==
  /\ now = 0
  /\ earlier = [p \in PRs |-> 0]
  /\ label = [p \in PRs |-> FALSE]
  /\ comments = [p \in PRs |-> <<>>]
  /\ merged = [p \in PRs |-> FALSE]
  /\ nextId = 1
  /\ events = 0
  /\ clean = TRUE
  /\ cancelled = {}
  /\ last = Idle
  /\ race = NoRace
  /\ call = NoCall
  /\ pushed = {}
  /\ running = NoSweep

\* validateScheduleTime(dateStr, timezone) is called at time t
ValidateEvent ==
  /\ call.op = "none"
  /\ \E in \in TimeTexts, t \in ParseNows :
       \E lib \in LibsFor(in) :
         call' = [op |-> "validateScheduleTime", in |-> in, args |-> in,
                  now |-> t, lib |-> lib, role |-> "none",
                  out |-> validateScheduleTimeText(in, t, lib)]
  /\ UNCHANGED <<now, label, earlier, comments, merged, nextId, events, last, clean,
                 cancelled, race, pushed, running>>

\* the host once the comment that triggers the event is on PR 1
CommentedCtx ==
  [Ctx({}, AllMergeable) EXCEPT
     !.comments[1] = Append(@, [id |-> nextId, body |-> TriggerBody(ScheduleCmd(0))]),
     !.nextId = @ + 1]

\* an issue_comment event on PR 1 whose text is '@merge-at' followed by the
\* string: run() calls handleComment in mode 'comment'
CommandEvent ==
  /\ call.op = "none"
  /\ \E in \in {x \in TimeTexts : x.hasDate /\ x.hasTime}, t \in ParseNows, role \in {"write", "read"} :
       \E lib \in LibsFor(CommandMatch(in).args) :
         /\ Install(handleCommentText(CommentedCtx, 1, in, role, t, lib).c)
         /\ call' = [op |-> "handleComment", in |-> in, args |-> CommandMatch(in).args,
                     now |-> t, lib |-> lib, role |-> role,
                     out |-> validateScheduleTimeText(CommandMatch(in).args, t, lib)]
  /\ UNCHANGED <<now, earlier, events, last, clean, cancelled, race, pushed, running>>

NextParse == ValidateEvent \/ CommandEvent

SpecParse == InitParse /\ [][NextParse]_vars

(***************************************************************************)
(* The entry point run() with the inputs of the action.  The PR number is  *)
(* a string read with parseInt; a repository without a slash has no repo   *)
(* part, and the host answers 404 to every call made for it.               *)
(***************************************************************************)
Modes == {"comment", "scheduler", "", "merge"}
PrInputs == {"", "abc", "0", "1", "2", "1abc"}
Repositories == {"", "owner/repo", "norepo"}

\* parseInt(s, 10): the number the leading digits spell, NaN when none
ParseInt(str) ==
  CASE str = "0" -> [nan |-> FALSE, n |-> 0]
    [] str \in {"1", "1abc"} -> [nan |-> FALSE, n |-> 1]
    [] str = "2" -> [nan |-> FALSE, n |-> 2]
    [] OTHER -> [nan |-> TRUE, n |-> 0]

\* !prNumber is false: the number is neither NaN nor 0
IsNumber(v) == ~v.nan /\ v.n # 0

\* the inputs the workflows hand over: all four in comment mode, the mode
\* alone otherwise; a comment text that is empty is no input
RunInputs(t) ==
  {[mode |-> "comment", hasBody |-> cmd # NoCmd, cmd |-> cmd, prInput |-> n,
    repository |-> r] : cmd \in Cmds(t), n \in PrInputs, r \in Repositories}
  \cup {[mode |-> m, hasBody |-> FALSE, cmd |-> NoCmd, prInput |-> "", repository |-> ""] :
          m \in Modes \ {"comment"}}

\* lines 202-207: core.setFailed(`Action failed: ${error.message}`)
SetFailed(c, msg, h) ==
  [c |-> c, failed |-> TRUE, message |-> "Action failed: " \o msg, handler |-> h]

\* the invocation after handler h ended with r
Outcome(r, h) ==
  IF r.thrown THEN SetFailed(r.c, r.error.message, h)
  ELSE [c |-> r.c, failed |-> FALSE, message |-> "", handler |-> h]

\* lines 182-208
run(c, inp, role, t) ==
  IF inp.mode = "comment"
    THEN IF ~inp.hasBody \/ ~IsNumber(ParseInt(inp.prInput)) \/ inp.repository = ""
           THEN SetFailed(c, "Missing required inputs for comment handling", "none")
           ELSE Outcome(handleComment(c, ParseInt(inp.prInput).n, inp.cmd, role, t),
                        "handleComment")
  ELSE IF inp.mode = "scheduler"
    THEN Outcome(processScheduledMerges(c, t), "processScheduledMerges")
  ELSE SetFailed(c, "Invalid mode: " \o inp.mode, "none")

\* the host calls rejected during the invocation: none or up to MaxFaults
\* of those made, and all of them for a repository without a slash
RunPlans(inp, role) ==
  IF inp.mode = "scheduler" THEN SweepPlans(Ctx({}, AllMergeable), {}, MaxFaults)
  ELSE IF inp.mode = "comment" /\ inp.repository = "norepo"
    THEN {{<<k, 404>> : k \in 1..2}}
  ELSE IF inp.mode = "comment" /\ IsNumber(ParseInt(inp.prInput))
    THEN CommentPlans(Ctx({}, AllMergeable), ParseInt(inp.prInput).n, inp.cmd, role, {},
                      MaxFaults)
  ELSE {{}}

\* the workflow starts the action once
RunEvent ==
  /\ call.op = "none"
  /\ \E inp \in RunInputs(now), role \in {"write", "read"} :
       \E plan \in RunPlans(inp, role) :
         /\ Install(run(Ctx(plan, AllMergeable), inp, role, now).c)
         /\ call' = [op |-> "run", inp |-> inp, role |-> role, plan |-> plan,
                     preLabel |-> label, preComments |-> comments, preMerged |-> merged,
                     log |-> run(Ctx(plan, AllMergeable), inp, role, now).c.log,
                     failed |-> run(Ctx(plan, AllMergeable), inp, role, now).failed,
                     message |-> run(Ctx(plan, AllMergeable), inp, role, now).message,
                     handler |-> run(Ctx(plan, AllMergeable), inp, role, now).handler]
  /\ UNCHANGED <<now, earlier, events, last, clean, cancelled, race, pushed, running>>

NextRun == RunEvent \/ Tick

SpecRun == Init /\ [][NextRun]_vars

(***************************************************************************)
(* Sweeps on PRs that receive new commits.  The workflows start the action *)
(* on issue_comment events and for the sweep only: a push to the branch of *)
(* a PR starts nothing, and the host keeps the labels and the comments of  *)
(* the PR.  pushed holds the PRs updated since their schedule was stored.  *)
(***************************************************************************)
Push(pr) ==
  /\ last.op = "idle"
  /\ pr \notin pushed
  /\ ~merged[pr]
  /\ label[pr]
  /\ Markers(comments[pr]) # <<>>
  /\ pushed' = pushed \cup {pr}
  /\ UNCHANGED <<now, label, earlier, comments, merged, nextId, events, last, clean,
                 cancelled, race, call, running>>

NextPush ==
  \/ \E pr \in PRs : Push(pr)
  \/ Sweep
  \/ Finish
  \/ Tick

SpecPush == Init /\ [][NextPush]_vars

(***************************************************************************)
(* getLatestScheduleComment on a PR with no comment, comments that do not  *)
(* mention the command, and one or two that do, after none or PerPage - 1  *)
(* earlier comments that do not mention it.                                *)
(***************************************************************************)
PlainBody == TextBody("regular comment")

LatestComments(p) ==
  { <<>>,
    << [id |-> 3 * p - 2, body |-> PlainBody] >>,
    << [id |-> 3 * p - 2, body |-> TriggerBody(ScheduleCmd(1))],
       [id |-> 3 * p - 1, body |-> PlainBody] >>,
    << [id |-> 3 * p - 2, body |-> PlainBody],
       [id |-> 3 * p - 1, body |-> TriggerBody(ScheduleCmd(1))] >>,
    << [id |-> 3 * p - 2, body |-> TriggerBody(ScheduleCmd(1))],
       [id |-> 3 * p - 1, body |-> MarkerBody(1)],
       [id |-> 3 * p, body |-> PlainBody] >> }

InitLatest ==
  /\ now = 0
  /\ earlier \in [PRs -> InitFill]
  /\ \E cs \in [PRs -> UNION {LatestComments(p) : p \in PRs}] :
       /\ \A p \in PRs : cs[p] \in LatestComments(p)
       /\ comments = cs
       /\ label = [p \in PRs |-> Markers(cs[p]) # <<>>]
  /\ merged = [p \in PRs |-> FALSE]
  /\ nextId = 3 * NumPRs + 1
  /\ events = 0
  /\ clean = TRUE
  /\ cancelled = {}
  /\ last = Idle
  /\ race = NoRace
  /\ call = NoCall
  /\ pushed = {}
  /\ running = NoSweep

\* getLatestScheduleComment is called on pr; the host answers the listing
\* or rejects it
LatestEvent(pr) ==
  /\ call.op = "none"
  /\ \E plan \in {{}} \cup {{<<1, s>>} : s \in ErrStatus("listComments")} :
       call' = [op |-> "getLatestScheduleComment", pr |-> pr, plan |-> plan,
                threw |-> getLatestScheduleComment(Ctx(plan, AllMergeable), pr).thrown,
                error |-> getLatestScheduleComment(Ctx(plan, AllMergeable), pr).error,
                result |-> IF getLatestScheduleComment(Ctx(plan, AllMergeable), pr).thrown
                             THEN Undefined
                             ELSE getLatestScheduleComment(Ctx(plan, AllMergeable), pr).data]
  /\ UNCHANGED <<now, label, earlier, comments, merged, nextId, events, last, clean,
                 cancelled, race, pushed, running>>

NextLatest == \E pr \in PRs : LatestEvent(pr)

SpecLatest == InitLatest /\ [][NextLatest]_vars

(***************************************************************************)
(* Comment events whose text contains the cancel command, alone or next to *)
(* a well-formed schedule command ('@merge-at cancel @merge-at <date>      *)
(* <time>').                                                               *)
(***************************************************************************)
CancelAndSchedule(w) == [cancel |-> TRUE, match |-> TRUE, wellFormed |-> TRUE, when |-> w]

CancelCmds(t) == {CancelCmd} \cup {CancelAndSchedule(w) : w \in {t + 1, t + 2}}

NextCancel ==
  \/ \E pr \in PRs, role \in Roles : \E cmd \in CancelCmds(now) : CommentEvent(pr, cmd, role)
  \/ Finish
  \/ Tick

SpecCancel == Init /\ [][NextCancel]_vars

(***************************************************************************)
(* A sweep taken candidate by candidate, with comment events and the clock *)
(* advancing between its steps.  running holds the sweep in progress: the  *)
(* instant captured before the loop (now), the list getScheduledPRs        *)
(* returned (listed), the candidates still to visit (todo) and, per        *)
(* visited candidate, what the loop did (steps).                           *)
(***************************************************************************)
\* the plans that reject at most k (0 or 1) host calls of mergePR(pr)
StepPlans(c, pr, k) ==
  IF k = 0 THEN {{}}
  ELSE {{}} \cup {{f} : f \in {g \in (1..Len(mergePR(c, pr).c.log)) \X {404, 405, 500} :
                                 g[2] \in ErrStatus(mergePR(c, pr).c.log[g[1]].op)}}

\* mutant: the due test reads the clock at each candidate
DueInSweepClock(pr) == IsDue(pr.scheduleTime, now)

\* lines 93-98: the due test of the loop, against the instant captured
DueInSweep(pr) == IsDue(pr.scheduleTime, running.now)

\* what the loop did with candidate pr: m is the result of mergePR
Step(pr, attempted, m) ==
  [pr |-> pr.number, attempted |-> attempted, clock |-> now,
   labelled |-> label[pr.number],
   stored |-> {Markers(comments[pr.number])[i].body.when :
                 i \in 1..Len(Markers(comments[pr.number]))},
   events |-> events, log |-> m.c.log, threw |-> m.thrown]

\* lines 86-91: getScheduledPRs, then const now = new Date()
SweepStart ==
  /\ last.op = "idle"
  /\ running.stage = "off"
  /\ running' = [stage |-> "loop", now |-> now, events |-> events,
                 listed |-> getScheduledPRs(Ctx({}, AllMergeable)).data,
                 todo |-> getScheduledPRs(Ctx({}, AllMergeable)).data,
                 steps |-> <<>>]
  /\ UNCHANGED <<now, label, earlier, comments, merged, nextId, events, last, clean,
                 cancelled, race, call, pushed>>

\* lines 93-114: one pass of the loop body; a failure of mergePR is logged
\* at most k rejected calls in the pass
SweepStepWithin(k) ==
  /\ running.stage = "loop"
  /\ running.todo # <<>>
  /\ IF DueInSweep(Head(running.todo))
       THEN \E mg \in MergeableValues :
              \E plan \in StepPlans(Ctx({}, [p \in PRs |-> mg]), Head(running.todo).number, k) :
                /\ Install(mergePR(Ctx(plan, [p \in PRs |-> mg]), Head(running.todo).number).c)
                /\ running' = [running EXCEPT
                                 !.todo = Tail(@),
                                 !.steps = Append(@, Step(Head(running.todo), TRUE,
                                                          mergePR(Ctx(plan, [p \in PRs |-> mg]),
                                                                  Head(running.todo).number)))]
       ELSE /\ running' = [running EXCEPT
                             !.todo = Tail(@),
                             !.steps = Append(@, Step(Head(running.todo), FALSE,
                                                      Ret(Ctx({}, AllMergeable))))]
            /\ UNCHANGED <<label, comments, merged, nextId>>
  /\ UNCHANGED <<now, earlier, events, last, clean, cancelled, race, call, pushed>>

SweepStep == SweepStepWithin(MaxFaults)

SweepStepClean == SweepStepWithin(0)

\* lines 116-122: the loop is over
SweepEnd ==
  /\ running.stage = "loop"
  /\ running.todo = <<>>
  /\ running' = [running EXCEPT !.stage = "done"]
  /\ UNCHANGED <<now, label, earlier, comments, merged, nextId, events, last, clean,
                 cancelled, race, call, pushed>>

\* the clock advances, one day further than in the other specifications so
\* that a schedule stored for day 1 can fall due before and during a sweep
LateTick ==
  /\ last.op = "idle"
  /\ now < MaxNow + 1
  /\ now' = now + 1
  /\ UNCHANGED <<label, earlier, comments, merged, nextId, events, last, clean, cancelled,
                 race, call, pushed, running>>

\* one sweep on its own, with rejected calls and the clock advancing
NextStepwise ==
  \/ SweepStart
  \/ SweepStep
  \/ SweepEnd
  \/ LateTick

SpecStepwise == Init /\ [][NextStepwise]_vars

\* one sweep with comment events between its steps, no call rejected
NextOverlap ==
  \/ SweepStart
  \/ SweepStepClean
  \/ SweepEnd
  \/ \E pr \in PRs, role \in Roles : \E cmd \in Cmds(now) :
       CommentEventWithin(pr, cmd, role, MaxEvents, 0)
  \/ Finish
  \/ Tick

SpecOverlap == Init /\ [][NextOverlap]_vars

(***************************************************************************)
(* Sweeps recurring forever on the timer of the workflow, no host call     *)
(* rejected by a fault and no comment event.  The host may report a due PR *)
(* as not mergeable in at most MaxEvents sweeps (events counts them) and   *)
(* reports every PR mergeable from then on.                                *)
(***************************************************************************)
\* a schedule event of the timer
RecurSweep ==
  /\ last.op = "idle"
  /\ \E mg \in [PRs -> MergeableValues] :
       /\ mg # AllMergeable => events < MaxEvents
       /\ \A p \in PRs \ DueNow(now) : mg[p] = "true"
       /\ \E r \in {processScheduledMerges(Ctx({}, mg), now)} :
            /\ Install(r.c)
            /\ last' = [op |-> "sweep", pr |-> 0, cmd |-> NoCmd, role |-> "none",
                        plan |-> {}, now |-> now,
                        preLabel |-> label, preComments |-> comments,
                        preMerged |-> merged, urls |-> <<>>,
                        post |-> getScheduledPRs([r.c EXCEPT !.log = <<>>]).data,
                        log |-> r.c.log, attempts |-> r.c.attempts, listed |-> r.c.listed,
                        threw |-> r.thrown]
       /\ events' = IF mg = AllMergeable THEN events ELSE events + 1
  /\ UNCHANGED <<now, earlier, clean, cancelled, race, call, pushed, running>>

\* the clock advances whatever the action is doing, up to the day after the
\* latest instant stored
Clock ==
  /\ now < MaxNow + 1
  /\ now' = now + 1
  /\ UNCHANGED <<label, earlier, comments, merged, nextId, events, last, clean, cancelled,
                 race, call, pushed, running>>

NextRecur ==
  \/ RecurSweep
  \/ Finish
  \/ Clock

\* every run ends and time passes (weak fairness); the timer fires again
\* and again: RecurSweep is enabled whenever no run is in progress, so that
\* its weak fairness is that sweeps are taken infinitely often
SpecRecur ==
  /\ Init
  /\ [][NextRecur]_vars
  /\ WF_vars(Finish)
  /\ WF_vars(Clock)
  /\ []<><<RecurSweep>>_vars

(***************************************************************************)
(* Observations on the latest invocation.                                  *)
(***************************************************************************)
NumMarkers(p) == Len(Markers(comments[p]))

IsPrefix(a, b) == Len(a) <= Len(b) /\ SubSeq(b, 1, Len(a)) = a

Authorized(role) == role \in {"admin", "write"}

\* the host calls of kind op made on PR p, by position in the log
Calls(op, p) == {i \in 1..Len(last.log) : last.log[i].op = op /\ last.log[i].pr = p}

\* the calls made inside the merge attempt a
Span(a) == a.from..a.to
Attempted(p) == \E i \in 1..Len(last.attempts) : last.attempts[i].pr = p
MergeDone(a) == \E i \in Span(a) : last.log[i].op = "pulls.merge" /\ last.log[i].status = 0

\* a createComment call with this body was made on p, and the comment is
\* on the PR whenever the host accepted the call
Posts(p, body) ==
  /\ \E i \in Calls("createComment", p) : last.log[i].body = body
  /\ \A i \in Calls("createComment", p) :
       (last.log[i].body = body /\ last.log[i].status = 0)
         => \E k \in 1..Len(comments[p]) :
              /\ comments[p][k].body = body
              /\ \A j \in 1..Len(last.preComments[p]) :
                   last.preComments[p][j].id # comments[p][k].id

IsFailureBody(body) == body.kind = "text" /\ Includes(body.text, "Failed to merge PR")

\* C1: at the end of every invocation of a sequence of valid schedule and
\* cancel commands of authorized authors with no rejected host call, the PR
\* carries at most one marker comment, and after a schedule command exactly
\* one marker comment and the label.
C1_AtMostOneMarker ==
  (last.op = "handleComment" /\ clean)
    => /\ NumMarkers(last.pr) <= 1
       /\ ~last.cmd.cancel => (NumMarkers(last.pr) = 1 /\ label[last.pr])

\* C2: a sweep attempts a listed candidate if and only if its scheduleTime
\* is a valid date at or before the sweep's current time, it attempts no
\* other PR, and a PR merged by the sweep had a stored instant at or before
\* that time.
C2_AttemptIffDue ==
  last.op = "sweep"
    => /\ \A i \in 1..Len(last.listed) :
            Attempted(last.listed[i].number)
              <=> (ValidDate(last.listed[i].scheduleTime)
                     /\ last.listed[i].scheduleTime <= last.now)
       /\ \A p \in PRs :
            Attempted(p) => \E i \in 1..Len(last.listed) : last.listed[i].number = p
       /\ \A p \in PRs :
            (merged[p] /\ ~last.preMerged[p])
              => \E k \in 1..Len(last.preComments[p]) :
                   /\ HasMarker(last.preComments[p][k].body)
                   /\ last.preComments[p][k].body.when <= last.now

\* a sweep attempted a candidate scheduled exactly at its current time and
\* left alone a candidate scheduled later
C2_Witness ==
  /\ last.op = "sweep"
  /\ \E i, j \in 1..Len(last.listed) :
       /\ last.listed[i].scheduleTime = last.now
       /\ Attempted(last.listed[i].number)
       /\ merged[last.listed[i].number]
       /\ last.listed[j].scheduleTime > last.now
       /\ ~Attempted(last.listed[j].number)

\* C3: a sweep has no side effect on a candidate scheduled later than its
\* current time: no host call beyond the listing of its comments, and its
\* label and comments are as before.
C3_FutureUntouched ==
  last.op = "sweep"
    => \A i \in 1..Len(last.listed) :
         last.listed[i].scheduleTime > last.now
           => LET p == last.listed[i].number
              IN  /\ label[p] = last.preLabel[p]
                  /\ comments[p] = last.preComments[p]
                  /\ merged[p] = last.preMerged[p]
                  /\ \A k \in 1..Len(last.log) :
                       last.log[k].pr = p => last.log[k].op = "listComments"

\* a sweep merged one PR and listed another one scheduled for later
C3_Witness ==
  /\ last.op = "sweep"
  /\ \E i \in 1..Len(last.listed) :
       /\ last.listed[i].scheduleTime > last.now
       /\ label[last.listed[i].number]
       /\ NumMarkers(last.listed[i].number) = 1
  /\ \E p \in PRs : merged[p] /\ ~last.preMerged[p]

\* the calls of attempt a after its merge call were all accepted
LaterCallsOk(a) ==
  \A i \in Span(a) :
    (last.log[i].op = "pulls.merge" /\ last.log[i].status = 0)
      => \A k \in (i + 1)..a.to : last.log[k].status = 0

\* C4: when the merge call of an attempt succeeds and the later host calls
\* succeed too, mergePR returns normally having posted the success comment,
\* and the PR has neither the label nor a marker comment; every merge call
\* uses the squash method.
C4_MergeClearsSchedule ==
  last.op = "sweep"
    => /\ \A i \in 1..Len(last.attempts) :
            LET a == last.attempts[i]
            IN  (MergeDone(a) /\ LaterCallsOk(a))
                  => /\ ~a.threw
                     /\ Posts(a.pr, SuccessBody)
                     /\ ~label[a.pr]
                     /\ NumMarkers(a.pr) = 0
       /\ \A k \in 1..Len(last.log) :
            last.log[k].op = "pulls.merge" => last.log[k].body.text = "squash"

\* a sweep merged a PR that carried the label and a marker comment
C4_Witness ==
  /\ last.op = "sweep"
  /\ \E i \in 1..Len(last.attempts) :
       LET a == last.attempts[i]
       IN  /\ MergeDone(a) /\ LaterCallsOk(a)
           /\ last.preLabel[a.pr]
           /\ Len(Markers(last.preComments[a.pr])) = 1
           /\ merged[a.pr]
           /\ \E k \in Span(a) : last.log[k].op = "deleteComment" /\ last.log[k].status = 0

\* C5: an attempt that fails without having merged the PR removes no label
\* and deletes no marker comment: the PR keeps its label and its comments
\* (failure comments are only added), and the next listing returns the PR
\* with the same instant, still due.
C5_FailureKeepsSchedule ==
  last.op = "sweep"
    => \A i \in 1..Len(last.attempts) :
         LET a == last.attempts[i]
         IN  (a.threw /\ ~MergeDone(a))
               => /\ label[a.pr] /\ last.preLabel[a.pr]
                  /\ IsPrefix(last.preComments[a.pr], comments[a.pr])
                  /\ Markers(comments[a.pr]) = Markers(last.preComments[a.pr])
                  /\ \A k \in Span(a) : last.log[k].op \notin {"removeLabel", "deleteComment"}
                  /\ \E n \in 1..Len(last.post), m \in 1..Len(last.listed) :
                       /\ last.post[n].number = a.pr
                       /\ last.listed[m].number = a.pr
                       /\ last.post[n].scheduleTime = last.listed[m].scheduleTime
                       /\ last.post[n].scheduleTime <= last.now

\* attempts failed for each of the three reasons: the fetch answered 404,
\* the PR was not mergeable, the merge call was rejected
C5_Witness ==
  /\ last.op = "sweep"
  /\ \E i \in 1..Len(last.attempts) :
       LET a == last.attempts[i]
       IN  /\ a.threw /\ ~MergeDone(a)
           /\ \E k \in Span(a) : last.log[k].op = "pulls.merge" /\ last.log[k].status = 405
           /\ Len(comments[a.pr]) > Len(last.preComments[a.pr])

\* the sweep enumerated the scheduled PRs: its search call was accepted
Enumerated == Len(last.log) >= 1 /\ last.log[1].op = "search" /\ last.log[1].status = 0

\* C6: in a sweep that enumerated the scheduled PRs, an attempt that fails
\* does not stop the sweep: every due candidate listed after it is attempted
\* after it, and the sweep returns normally.
C6_FailureIsolated ==
  (last.op = "sweep" /\ Enumerated)
    => /\ ~last.threw
       /\ \A i \in 1..Len(last.attempts) :
            last.attempts[i].threw
              => \A m, n \in 1..Len(last.listed) :
                   (/\ last.listed[m].number = last.attempts[i].pr
                    /\ m < n
                    /\ last.listed[n].scheduleTime <= last.now)
                     => \E j \in (i + 1)..Len(last.attempts) :
                          last.attempts[j].pr = last.listed[n].number

\* the fetch of the first due PR was rejected by the host and the second
\* due PR was merged by the same sweep
C6_Witness ==
  /\ last.op = "sweep"
  /\ Len(last.attempts) = 2
  /\ last.attempts[1].threw
  /\ \E k \in Span(last.attempts[1]) : last.log[k].op = "pulls.get" /\ last.log[k].status = 500
  /\ ~last.attempts[2].threw
  /\ merged[last.attempts[2].pr]

\* C7: a sweep throws if and only if its search call is rejected; then it
\* makes no other host call and no merge attempt, and the host state is as
\* before.
C7_ThrowsIffListingFails ==
  last.op = "sweep"
    => /\ last.threw <=> ~Enumerated
       /\ last.threw
            => /\ last.attempts = <<>>
               /\ Len(last.log) = 1
               /\ label = last.preLabel
               /\ comments = last.preComments
               /\ merged = last.preMerged

\* the search of a sweep was rejected while a labelled PR was due
C7_Witness ==
  /\ last.op = "sweep"
  /\ last.threw
  /\ \E p \in PRs :
       /\ label[p]
       /\ \E k \in 1..Len(comments[p]) :
            HasMarker(comments[p][k].body) /\ comments[p][k].body.when <= last.now

\* the fetch of attempt a was accepted and reported mergeable = true
FetchedMergeable(a) ==
  /\ last.log[a.from].op = "pulls.get"
  /\ last.log[a.from].status = 0
  /\ last.log[a.from].body.text = "true"

\* C8: a merge call is made only inside an attempt whose fetch was accepted
\* and reported mergeable = true; otherwise the attempt makes no merge call,
\* posts a failure comment and rejects.
C8_MergeOnlyIfMergeable ==
  last.op = "sweep"
    => /\ \A k \in 1..Len(last.log) :
            last.log[k].op = "pulls.merge"
              => \E i \in 1..Len(last.attempts) :
                   /\ k \in Span(last.attempts[i])
                   /\ k > last.attempts[i].from
                   /\ last.log[k].pr = last.attempts[i].pr
                   /\ FetchedMergeable(last.attempts[i])
       /\ \A i \in 1..Len(last.attempts) :
            LET a == last.attempts[i]
            IN  ~FetchedMergeable(a)
                  => /\ \A k \in Span(a) : last.log[k].op # "pulls.merge"
                     /\ a.threw
                     /\ ~merged[a.pr]
                     /\ \E k \in Span(a) :
                          /\ last.log[k].op = "createComment"
                          /\ IsFailureBody(last.log[k].body)
                          /\ last.log[k].status = 0 => Posts(a.pr, last.log[k].body)

\* the host reported mergeable = null for a due PR: no merge call, and the
\* failure comment is on the PR
C8_Witness ==
  /\ last.op = "sweep"
  /\ \E i \in 1..Len(last.attempts) :
       LET a == last.attempts[i]
       IN  /\ last.log[a.from].op = "pulls.get"
           /\ last.log[a.from].body.text = "null"
           /\ a.threw
           /\ \E k \in 1..Len(comments[a.pr]) :
                comments[a.pr][k].body = FailBody(NotMergeableMsg)

\* a call of the latest invocation that changes schedule state
Mutating(k) ==
  \/ last.log[k].op \in {"removeLabel", "addLabels", "deleteComment"}
  \/ last.log[k].op = "createComment" /\ HasMarker(last.log[k].body)

\* the permission lookup of the latest comment invocation was accepted
LookupOk ==
  \E k \in 1..Len(last.log) :
    last.log[k].op = "getCollaboratorPermissionLevel" /\ last.log[k].status = 0

AuthorKnown == Len(last.log) >= 1 /\ last.log[1].op = "getComment" /\ last.log[1].status = 0

\* C9: handleComment makes a call that changes schedule state only for an
\* author whose permission lookup answered admin or write; for any other
\* role, or when the lookup is rejected, it posts the permission-denied
\* comment, makes no other call, and the label and the markers are as before.
C9_OnlyWritersChangeState ==
  last.op = "handleComment"
    => /\ (\/ \E k \in 1..Len(last.log) : Mutating(k)
           \/ label # last.preLabel
           \/ Markers(comments[last.pr]) # Markers(last.preComments[last.pr]))
            => (last.role \in {"admin", "write"} /\ LookupOk)
       /\ (AuthorKnown /\ ~(last.role \in {"admin", "write"} /\ LookupOk))
            => /\ Posts(last.pr, DeniedBody)
               /\ last.log[3].op = "createComment" /\ last.log[3].body = DeniedBody
               /\ \A k \in 4..Len(last.log) :
                    /\ last.log[3].status # 0
                    /\ last.log[k].op = "createComment"
                    /\ last.log[k].body = GenericBody
               /\ label = last.preLabel
               /\ Markers(comments[last.pr]) = Markers(last.preComments[last.pr])

\* a reader's cancel command on a scheduled PR was denied and the schedule
\* is still there
C9_Witness ==
  /\ last.op = "handleComment"
  /\ last.role = "read"
  /\ last.cmd.cancel
  /\ LookupOk
  /\ label[last.pr]
  /\ NumMarkers(last.pr) = 1
  /\ comments[last.pr][Len(comments[last.pr])].body = DeniedBody

\* C10: an authorized cancel command handled with no rejected host call
\* leaves the PR with no label and no marker comment, returns normally and
\* posts the cancelled comment, also when the label was already absent.
C10_CancelIdempotent ==
  (last.op = "handleComment" /\ last.cmd.cancel /\ Authorized(last.role) /\ last.plan = {})
    => /\ ~label[last.pr]
       /\ NumMarkers(last.pr) = 0
       /\ ~last.threw
       /\ Posts(last.pr, CancelledBody)

\* C11: a sweep attempts no PR whose latest completed cancel command was
\* followed by no schedule command that began to store a schedule, at
\* whatever time the sweep runs.
C11_CancelledNotAttempted ==
  last.op = "sweep" => \A p \in cancelled : ~Attempted(p)

\* a cancelled PR still carries a marker comment that is due (it was past
\* the first page of the listing), and the sweep that followed enumerated
\* the scheduled PRs and left it alone
C11_Witness ==
  /\ last.op = "sweep"
  /\ Enumerated
  /\ \E p \in cancelled :
       /\ ~Attempted(p)
       /\ ~merged[p]
       /\ \E k \in 1..Len(comments[p]) : comments[p][k].body = CancelledBody
       /\ \E k \in 1..Len(comments[p]) :
            HasMarker(comments[p][k].body) /\ comments[p][k].body.when <= last.now

\* what the next getScheduledPRs returns when no host call is rejected
NextListing == getScheduledPRs(Ctx({}, AllMergeable)).data

\* the entries of a listing for PR p
EntriesOf(listing, p) == SelectSeq(listing, LAMBDA e : e.number = p)

\* the latest invocation handled a valid schedule command of an authorized
\* author with no rejected host call
ScheduledOk ==
  /\ last.op = "handleComment"
  /\ Authorized(last.role)
  /\ ~last.cmd.cancel
  /\ ValidCmd(last.cmd, last.now)
  /\ last.plan = {}

\* C12: after a valid schedule command of an authorized author is handled,
\* with no rejected host call, on a PR that carried the label and a marker
\* comment, the next getScheduledPRs returns the PR exactly once, with the
\* instant of the command.
C12_RescheduleReplaces ==
  (/\ ScheduledOk
   /\ last.preLabel[last.pr]
   /\ Markers(last.preComments[last.pr]) # <<>>)
    => /\ Len(EntriesOf(NextListing, last.pr)) = 1
       /\ EntriesOf(NextListing, last.pr)[1].scheduleTime = last.cmd.when

\* both interleaved invocations have ended
RaceOver == race.pr # 0 /\ \A i \in Procs : race.procs[i].pc = "done"

\* C13: when two interleaved invocations have handled their schedule
\* commands on the same PR, the next getScheduledPRs returns for the PR the
\* instant of the marker comment created last.
C13_LastWriteWins ==
  (RaceOver /\ Markers(comments[race.pr]) # <<>>)
    => /\ Len(EntriesOf(NextListing, race.pr)) = 1
       /\ EntriesOf(NextListing, race.pr)[1].scheduleTime =
            Markers(comments[race.pr])[Len(Markers(comments[race.pr]))].body.when

\* C14: handleComment returns normally whatever host calls are rejected,
\* the call that posts the reply included.
C14_NeverThrows ==
  last.op = "handleComment" => ~last.threw

\* the reply of handleComment to a command that is no cancel and not valid
ErrorReply(cmd, t) ==
  IF ~cmd.match THEN UsageBody
  ELSE TextBody("(x) Invalid date/time format: " \o ValidateReason(cmd, t))

\* the latest invocation handled, for an author found to have write access,
\* a command that is no cancel and no valid schedule command
RejectedCommand ==
  /\ last.op = "handleComment"
  /\ AuthorKnown /\ LookupOk /\ Authorized(last.role)
  /\ ~last.cmd.cancel
  /\ ~ValidCmd(last.cmd, last.now)

\* C15: an authorized command that is no cancel and not a valid schedule
\* command (no match, time not parsed, instant not in the future or past
\* the 30 days) gets its error comment posted as the first reply, and the
\* PR keeps its label and its marker comments: no call changes them.
C15_InvalidKeepsSchedule ==
  RejectedCommand
    => /\ Posts(last.pr, ErrorReply(last.cmd, last.now))
       /\ last.log[3].op = "createComment"
       /\ last.log[3].body = ErrorReply(last.cmd, last.now)
       /\ \A k \in 1..Len(last.log) : ~Mutating(k)
       /\ label = last.preLabel
       /\ Markers(comments[last.pr]) = Markers(last.preComments[last.pr])
       /\ merged = last.preMerged

\* a command past the 30 days on a scheduled PR: the error comment is on the
\* PR, the label and the marker with the old instant remain
C15_Witness ==
  /\ RejectedCommand
  /\ last.cmd = ScheduleCmd(last.now + ScheduleWindow + 1)
  /\ last.plan = {}
  /\ label[last.pr]
  /\ Len(Markers(comments[last.pr])) = 1
  /\ Markers(comments[last.pr])[1].body.when = 2
  /\ comments[last.pr][Len(comments[last.pr])].body =
       TextBody("(x) Invalid date/time format: Cannot schedule more than 30 days in advance")

\* the one call of the latest invocation that the host rejected by a fault
FaultAt == (CHOOSE f \in last.plan : TRUE)[1]
FaultStatus == (CHOOSE f \in last.plan : TRUE)[2]

\* the rejected call raised a failure in the handler: a 404 of removeLabel
\* is ignored, a rejected permission lookup counts as no access
FailureRaised ==
  /\ last.op = "handleComment"
  /\ Cardinality(last.plan) = 1
  /\ last.log[FaultAt].op # "getCollaboratorPermissionLevel"
  /\ ~(last.log[FaultAt].op = "removeLabel" /\ FaultStatus = 404)

\* the rejected call belongs to the persistence of the schedule path
InPersistence ==
  /\ ~last.cmd.cancel
  /\ \/ last.log[FaultAt].op \in {"removeLabel", "listComments", "deleteComment", "addLabels"}
     \/ last.log[FaultAt].op = "createComment" /\ HasMarker(last.log[FaultAt].body)

\* C16: a failure raised while removing the prior schedule or storing the
\* new one in the schedule path is answered by a comment made of the cross
\* mark and the failure's message; a failure raised anywhere else is
\* answered by the generic comment; it is the last call of the invocation.
C16_ReplyByFailureSite ==
  FailureRaised
    => /\ Len(last.log) = FaultAt + 1
       /\ last.log[FaultAt + 1].op = "createComment"
       /\ last.log[FaultAt + 1].status = 0
       /\ ~last.threw
       /\ last.log[FaultAt + 1].body =
            IF InPersistence THEN TextBody("(x) " \o HostError(FaultStatus).message)
            ELSE GenericBody
       /\ Posts(last.pr, last.log[FaultAt + 1].body)

\* storing a valid schedule was rejected by the host at addLabels and the
\* PR carries the comment with the host's message
C16_Witness ==
  /\ FailureRaised
  /\ InPersistence
  /\ last.log[FaultAt].op = "addLabels"
  /\ comments[last.pr][Len(comments[last.pr])].body = TextBody("(x) Server Error")

\* the listing of the comments of p was rejected by the host
ListingRejected(p) ==
  \E k \in 1..Len(last.log) :
    last.log[k].op = "listComments" /\ last.log[k].pr = p /\ last.log[k].status # 0

\* p is an open labelled PR with a repository reference whose first marker
\* comment carries a payload that parses to a valid date
WellStored(p) ==
  /\ label[p] /\ ~merged[p]
  /\ HasRepo(last.urls[p])
  /\ Markers(comments[p]) # <<>>
  /\ Markers(comments[p])[1].body.when \notin {NoPayload, BadJson, InvalidDate}

\* C17: a getScheduledPRs whose search is accepted returns normally; it
\* returns exactly the well-stored PRs whose listing the host did not reject, once
\* each, in search order, with the instant of the first marker: a PR with a
\* missing or malformed repository reference, a rejected listing, no marker,
\* a payload that does not parse or an invalid date is left out, and leaves
\* the other PRs in.
C17_SkipsWithoutThrowing ==
  (last.op = "list" /\ Enumerated)
    => /\ ~last.threw
       /\ \A p \in PRs :
            /\ Len(EntriesOf(last.post, p)) = IF WellStored(p) /\ ~ListingRejected(p) THEN 1 ELSE 0
            /\ \A i \in 1..Len(EntriesOf(last.post, p)) :
                 EntriesOf(last.post, p)[i].scheduleTime = Markers(comments[p])[1].body.when
       /\ \A i, j \in 1..Len(last.post) : i < j => last.post[i].number < last.post[j].number

\* the first item of the search has no repository reference, the second is
\* well stored and is returned
C17_Witness ==
  /\ last.op = "list"
  /\ label[1] /\ label[2]
  /\ last.urls[1] = ""
  /\ Markers(comments[1]) # <<>>
  /\ WellStored(2)
  /\ Len(last.post) = 1
  /\ last.post[1].number = 2

\* the instant the latest schedule stored on p holds: the one of the command
\* just handled, or the one of the marker p carried before
StoredInstant(p) ==
  IF p = last.pr THEN last.cmd.when
  ELSE Markers(last.preComments[p])[1].body.when

\* storeScheduleInfo completed on p and no removal followed
Stored(p) ==
  \/ p = last.pr
  \/ last.preLabel[p] /\ Markers(last.preComments[p]) # <<>>

\* C18: after a schedule command was stored with no rejected host call, the
\* next getScheduledPRs returns every PR that holds a stored schedule, once,
\* in search order, with the stored instant, whatever number of other
\* comments the PRs carry.
C18_StoreListRoundTrip ==
  ScheduledOk
    => /\ \A p \in PRs :
            Stored(p)
              => /\ Len(EntriesOf(NextListing, p)) = 1
                 /\ EntriesOf(NextListing, p)[1].scheduleTime = StoredInstant(p)
       /\ \A i, j \in 1..Len(NextListing) :
            i < j => NextListing[i].number < NextListing[j].number

\* C19: after removeScheduleInfo returns normally, no host call having been
\* rejected by a fault, the PR has no label and no marker comment, whatever
\* comments it had before.
C19_RemoveLeavesNothing ==
  (last.op = "remove" /\ ~last.threw /\ last.plan = {})
    => /\ ~label[last.pr]
       /\ Markers(comments[last.pr]) = <<>>

\* the marker comments of the first page of p before the latest invocation
PageMarkers(p) == Markers(FirstPageAfter(earlier[p], last.preComments[p]))

\* C20: when removeLabel answers 404, removeScheduleInfo goes on to list the
\* comments and deletes the markers listed (all of them when no later call
\* is rejected); when removeLabel answers another error, removeScheduleInfo
\* rejects at once and the comments are as before.
C20_OnlyNotFoundIgnored ==
  last.op = "remove"
    => /\ last.log[1].op = "removeLabel"
       /\ last.log[1].status = 404
            => /\ Len(last.log) >= 2
               /\ last.log[2].op = "listComments"
               /\ (\A k \in 2..Len(last.log) : last.log[k].status = 0)
                    => /\ ~last.threw
                       /\ Cardinality(Calls("deleteComment", last.pr)) = Len(PageMarkers(last.pr))
                       /\ \A i \in 1..Len(PageMarkers(last.pr)) :
                            \A k \in 1..Len(comments[last.pr]) :
                              comments[last.pr][k].id # PageMarkers(last.pr)[i].id
       /\ last.log[1].status \notin {0, 404}
            => /\ last.threw
               /\ Len(last.log) = 1
               /\ comments = last.preComments
               /\ label = last.preLabel

\* the PR carried two marker comments and no label: removeLabel answered
\* 404 and both markers were deleted
C20_Witness ==
  /\ last.op = "remove"
  /\ ~last.preLabel[last.pr]
  /\ last.log[1].status = 404
  /\ Len(Markers(last.preComments[last.pr])) = 2
  /\ Markers(comments[last.pr]) = <<>>
  /\ ~last.threw

(***************************************************************************)
(* Observations on a call of validateScheduleTime.                         *)
(***************************************************************************)
Validated == call.op = "validateScheduleTime"

\* the string has a date token and a time token of the shape digits:digits
WellShaped(in) == in.hasDate /\ in.hasTime /\ in.shape

\* the spellings of the meridiem the validator accepts
AcceptedMeridiems == {"AM", "am", "Am", "aM", "PM", "pm", "Pm", "pM"}

IsAM(m) == m \in {"AM", "am", "Am", "aM"}

\* the hour of the day that h with meridiem m names
ClockHour(h, m) ==
  IF IsAM(m) THEN (IF h = 12 THEN 0 ELSE h) ELSE (IF h = 12 THEN 12 ELSE h + 12)

\* the same date and minute in the 24-hour form
TwentyFourHourForm(in) ==
  FullText(in.date, ClockHour(in.hours, in.meridiem), in.minutes, "", FALSE, in.tz)

\* C21: for every date, hour 1..12, minute 0..59 and meridiem in any
\* accepted spelling (attached or after a space, any letter case),
\* validateScheduleTime gives the same outcome as for the 24-hour input with
\* hour 0 for 12 AM, 12 for 12 PM, h + 12 for other PM hours and h for other
\* AM hours.
C21_TwelveHourAsTwentyFour ==
  (/\ Validated
   /\ WellShaped(call.in)
   /\ call.in.meridiem \in AcceptedMeridiems
   /\ call.in.hours \in 1..12
   /\ call.in.minutes \in 0..59)
    => call.out = validateScheduleTimeText(TwentyFourHourForm(call.in), call.now, call.lib)

\* "12:59 am" after a space on day 1 in UTC is accepted as 00:59 of day 1
C21_Witness ==
  /\ Validated
  /\ WellShaped(call.in)
  /\ call.in.meridiem = "am"
  /\ call.in.spaced
  /\ call.in.hours = 12
  /\ call.in.minutes = 59
  /\ call.in.date = 1
  /\ call.in.tz = "UTC"
  /\ ~call.out.thrown
  /\ call.out.date = MinutesPerDay + 59

\* C22: a time token of the shape digits:digits is accepted exactly when,
\* with a meridiem, the hour is in 1..12 and the minute in 0..59 and,
\* without one, the hour is in 0..23 and the minute in 0..59; every other
\* hour or minute is rejected with reason 'Invalid time format'.
C22_TimeRange ==
  (/\ Validated
   /\ WellShaped(call.in)
   /\ call.in.meridiem \in AcceptedMeridiems \cup {""})
    => IF /\ call.in.minutes \in 0..59
          /\ IF call.in.meridiem = "" THEN call.in.hours \in 0..23
                                      ELSE call.in.hours \in 1..12
         THEN call.out.message # "Invalid date/time format: Invalid time format"
         ELSE /\ call.out.thrown
              /\ call.out.message = "Invalid date/time format: Invalid time format"

\* hour 13 with a meridiem is rejected although the date and the timezone
\* are good and 13:00 of that day is within the window
C22_Witness ==
  /\ Validated
  /\ WellShaped(call.in)
  /\ call.in.meridiem = "PM"
  /\ call.in.hours = 13
  /\ call.in.minutes = 0
  /\ call.in.date = 1
  /\ call.in.tz = "UTC"
  /\ call.out.thrown
  /\ call.out.message = "Invalid date/time format: Invalid time format"

\* the string is a calendar date, a time in range in either form and a
\* known timezone
WellFormedText(in) ==
  /\ WellShaped(in)
  /\ in.date # BadDate
  /\ in.meridiem \in AcceptedMeridiems \cup {""}
  /\ in.minutes \in 0..59
  /\ IF in.meridiem = "" THEN in.hours \in 0..23 ELSE in.hours \in 1..12
  /\ in.tz \in {"", "UTC", "America/New_York"}

\* minutes from the start of day 0 to the date and time the string shows
WallClock(in) ==
  in.date * MinutesPerDay + in.minutes
    + 60 * (IF in.meridiem = "" THEN in.hours ELSE ClockHour(in.hours, in.meridiem))

\* the instant at which the clocks of the timezone show the string
InstantOf(in) == WallClock(in) + (IF in.tz = "America/New_York" THEN 300 ELSE 0)

Reason(r) == "Invalid date/time format: " \o r

\* C23: for a well-formed input validateScheduleTime returns the instant
\* exactly when now < instant <= now + 30 days; an instant at or before now
\* is rejected with 'Scheduled time must be in the future' and an instant
\* later than now + 30 days with 'Cannot schedule more than 30 days in
\* advance'.
C23_WindowBounds ==
  (Validated /\ WellFormedText(call.in))
    => /\ InstantOf(call.in) <= call.now
            => /\ call.out.thrown
               /\ call.out.message = Reason("Scheduled time must be in the future")
       /\ (call.now < InstantOf(call.in)
           /\ InstantOf(call.in) <= call.now + 30 * MinutesPerDay)
            => /\ ~call.out.thrown
               /\ call.out.date = InstantOf(call.in)
       /\ InstantOf(call.in) > call.now + 30 * MinutesPerDay
            => /\ call.out.thrown
               /\ call.out.message = Reason("Cannot schedule more than 30 days in advance")

\* the instant exactly 30 days ahead is returned
C23_Witness ==
  /\ Validated
  /\ WellFormedText(call.in)
  /\ InstantOf(call.in) = call.now + 30 * MinutesPerDay
  /\ ~call.out.thrown
  /\ call.out.date = call.now + 30 * MinutesPerDay

\* the reasons validateScheduleTime words itself
FormatReasons ==
  {Reason("Date and time must be provided"), Reason("Invalid time format"),
   Reason("Invalid date format"), Reason("Invalid time zone specified")}

WindowReasons ==
  {Reason("Scheduled time must be in the future"),
   Reason("Cannot schedule more than 30 days in advance")}

\* the time part is there and is a time in range in either form
GoodTime(in) ==
  /\ in.hasTime
  /\ in.shape
  /\ in.meridiem \in AcceptedMeridiems \cup {""}
  /\ in.minutes \in 0..59
  /\ IF in.meridiem = "" THEN in.hours \in 0..23 ELSE in.hours \in 1..12

\* C24: every rejection of validateScheduleTime carries the prefix 'Invalid
\* date/time format: ', and the reason is that of the first failing check
\* in the order: fewer than two tokens, time shape and range, date and
\* timezone validity, not in the future, beyond 30 days.  An input with a
\* missing or malformed time, a non-calendar date or an unknown timezone is
\* never answered with a past or out-of-window reason or an instant.
C24_CheckOrder ==
  Validated
    => /\ call.out.thrown => call.out.message \in FormatReasons \cup WindowReasons
       /\ ~WellFormedText(call.in)
            => call.out.thrown /\ call.out.message \in FormatReasons
       /\ (WellFormedText(call.in) /\ call.out.thrown)
            => call.out.message \in WindowReasons
       /\ Len(Tokens(call.in)) < 2
            => call.out.message = Reason("Date and time must be provided")
       /\ (Len(Tokens(call.in)) >= 2 /\ ~(call.in.hasDate /\ GoodTime(call.in)))
            => call.out.message = Reason("Invalid time format")
       /\ (call.in.hasDate /\ GoodTime(call.in)
           /\ (call.in.date = BadDate \/ ZoneOf(call.in.tz) \notin KnownZones))
            => call.out.message \in {Reason("Invalid date format"),
                                     Reason("Invalid time zone specified")}

\* a date that is no calendar day with a good time in UTC is answered
\* 'Invalid date format', not as a time in the past
C24_Witness ==
  /\ Validated
  /\ call.in.hasDate
  /\ call.in.date = BadDate
  /\ GoodTime(call.in)
  /\ call.in.tz = "UTC"
  /\ call.out.thrown
  /\ call.out.message = Reason("Invalid date format")

\* C25: the date and time are taken as wall-clock time in the timezone and
\* the UTC instant is returned: in America/New_York (UTC-5) the instant is
\* five hours after the wall-clock reading, in UTC it equals it; a timezone
\* name that is not known is rejected.
C25_ZoneToUtc ==
  Validated
    => /\ (WellFormedText(call.in) /\ ~call.out.thrown)
            => call.out.date =
                 WallClock(call.in) + (IF call.in.tz = "America/New_York" THEN 5 * 60 ELSE 0)
       /\ call.in.tz \notin {"", "UTC", "America/New_York"} => call.out.thrown

\* 14:30 of day 1 in America/New_York is 19:30 UTC of day 1
C25_Witness ==
  /\ Validated
  /\ WellFormedText(call.in)
  /\ call.in.tz = "America/New_York"
  /\ call.in.date = 1
  /\ call.in.hours = 14
  /\ call.in.minutes = 30
  /\ call.in.meridiem = ""
  /\ ~call.out.thrown
  /\ call.out.date = MinutesPerDay + 19 * 60 + 30

(***************************************************************************)
(* Observations on a comment event whose text is held character by         *)
(* character.                                                              *)
(***************************************************************************)
Commanded == call.op = "handleComment"

\* the comment posted last on PR 1
LastComment == comments[1][Len(comments[1])]

\* C30: an authorized '@merge-at <date> <time><meridiem> [timezone]' comment
\* whose date, time and timezone are good and within the window is accepted
\* whatever the letter case of the meridiem (AM, am, Am, aM, PM, pm, Pm,
\* pM): the PR is labelled, the marker stored holds the instant the string
\* shows, and the timezone used is the one typed.
C30_MeridiemCaseInsensitive ==
  (/\ Commanded
   /\ call.role = "write"
   /\ WellFormedText(call.in)
   /\ call.in.meridiem \in AcceptedMeridiems
   /\ call.now < InstantOf(call.in)
   /\ InstantOf(call.in) <= call.now + 30 * MinutesPerDay)
    => /\ label[1]
       /\ LastComment.body = MarkerBody(InstantOf(call.in))
       /\ ZoneOf(call.args.tz) = ZoneOf(call.in.tz)

\* "2:30 pm" and "2:30 PM" of day 1 are accepted and stored as 14:30
C30_LowerAndUpperAccepted ==
  (/\ Commanded
   /\ call.role = "write"
   /\ WellFormedText(call.in)
   /\ call.in.meridiem \in {"AM", "PM", "am", "pm"}
   /\ call.now < InstantOf(call.in)
   /\ InstantOf(call.in) <= call.now + 30 * MinutesPerDay)
    => /\ label[1]
       /\ LastComment.body = MarkerBody(InstantOf(call.in))
       /\ ZoneOf(call.args.tz) = ZoneOf(call.in.tz)

\* the message the spec gives a merge rejected with status s
ClassifiedMessage(s) ==
  "Failed to merge PR: " \o
    (CASE s = 405 -> "PR is not mergeable at this time. Please resolve any conflicts or check branch protection rules."
       [] s = 404 -> "PR not found or you may not have permission to merge."
       [] OTHER -> HostError(s).message)

\* C26: when the host rejects the merge call of an attempt, the next call
\* of the attempt posts the failure comment with the message of the status
\* on the PR (405: not mergeable at this time, check branch protection
\* rules; 404: not found or no permission; other: the host's message), no
\* further comment follows, and with the comment accepted the attempt
\* rejects with that message and the PR stays unmerged and scheduled.
C26_MergeRejectionClassified ==
  last.op = "sweep"
    => \A i \in 1..Len(last.attempts) :
         \A k \in Span(last.attempts[i]) :
           (last.log[k].op = "pulls.merge" /\ last.log[k].status # 0)
             => /\ k < last.attempts[i].to
                /\ last.log[k + 1].op = "createComment"
                /\ last.log[k + 1].pr = last.attempts[i].pr
                /\ last.log[k + 1].body =
                     TextBody("(x) " \o ClassifiedMessage(last.log[k].status))
                /\ last.attempts[i].threw
                /\ ~merged[last.attempts[i].pr]
                /\ last.log[k + 1].status = 0
                     => /\ k + 1 = last.attempts[i].to
                        /\ Posts(last.attempts[i].pr, last.log[k + 1].body)
                        /\ last.attempts[i].error.message =
                             ClassifiedMessage(last.log[k].status)
                        /\ label[last.attempts[i].pr] = last.preLabel[last.attempts[i].pr]

\* a merge was rejected with 405 and the branch-protection message is the
\* last comment of the PR
C26_Witness ==
  /\ last.op = "sweep"
  /\ \E i \in 1..Len(last.attempts) :
       /\ last.attempts[i].threw
       /\ \E k \in Span(last.attempts[i]) :
            /\ last.log[k].op = "pulls.merge"
            /\ last.log[k].status = 405
       /\ Includes(comments[last.attempts[i].pr][Len(comments[last.attempts[i].pr])].body.text,
                   "check branch protection rules")

(***************************************************************************)
(* Observations on an invocation of run().                                 *)
(***************************************************************************)
Ran == call.op = "run"

\* the host is as it was before the invocation
HostUntouched ==
  /\ call.log = <<>>
  /\ label = call.preLabel
  /\ comments = call.preComments
  /\ merged = call.preMerged

\* the inputs of comment mode are all there and valid: a comment text, the
\* number of a PR, an owner/repo pair
CommentInputsValid(inp) ==
  /\ inp.hasBody
  /\ inp.prInput \in {"1", "2"}
  /\ inp.repository = "owner/repo"

\* C27: run() in mode 'comment' calls handleComment when the comment body,
\* the PR number and the repository are present and valid, in mode
\* 'scheduler' it calls processScheduledMerges, and a sweep whose search is
\* rejected marks the invocation failed; with any other mode, or with a
\* missing or invalid input in comment mode, the invocation is marked
\* failed with a message, no handler is called and the host is untouched.
C27_RunDispatch ==
  Ran
    => /\ (call.inp.mode = "comment" /\ CommentInputsValid(call.inp))
            => call.handler = "handleComment"
       /\ call.inp.mode = "scheduler"
            => /\ call.handler = "processScheduledMerges"
               /\ (call.log[1].op = "search" /\ call.log[1].status # 0) => call.failed
       /\ (\/ call.inp.mode \notin {"comment", "scheduler"}
           \/ call.inp.mode = "comment" /\ ~CommentInputsValid(call.inp))
            => /\ call.failed
               /\ call.message # ""
               /\ call.handler = "none"
               /\ HostUntouched

\* the same statement where an input of comment mode counts as invalid only
\* when it is empty or, for the PR number, has no leading digits or is 0
C27_DispatchOnPresence ==
  Ran
    => /\ (call.inp.mode = "comment" /\ CommentInputsValid(call.inp))
            => call.handler = "handleComment"
       /\ call.inp.mode = "scheduler"
            => /\ call.handler = "processScheduledMerges"
               /\ (call.log[1].op = "search" /\ call.log[1].status # 0) => call.failed
       /\ (\/ call.inp.mode \notin {"comment", "scheduler"}
           \/ /\ call.inp.mode = "comment"
              /\ (\/ ~call.inp.hasBody
                  \/ call.inp.prInput \in {"", "abc", "0"}
                  \/ call.inp.repository = ""))
            => /\ call.failed
               /\ call.message \in {"Action failed: Missing required inputs for comment handling",
                                    "Action failed: Invalid mode: " \o call.inp.mode}
               /\ call.handler = "none"
               /\ HostUntouched

\* C28: once new commits are pushed to a PR that has a stored schedule, the
\* PR carries no schedule any more: the sweep that follows the push finds
\* neither the label nor a marker comment on it, and does not merge it.
C28_ScheduleLostOnPush ==
  last.op = "sweep"
    => \A p \in pushed :
         /\ ~last.preLabel[p]
         /\ Markers(last.preComments[p]) = <<>>
         /\ ~merged[p]

\* a sweep after the push merged the PR at its scheduled time
MergedAfterPush ==
  /\ last.op = "sweep"
  /\ \E p \in pushed : merged[p] /\ ~last.preMerged[p]

(***************************************************************************)
(* Observations on a call of getLatestScheduleComment.                     *)
(***************************************************************************)
Looked == call.op = "getLatestScheduleComment"

\* the positions of the comments of p that mention the command
Mentions(p) == {k \in 1..Len(comments[p]) : Includes(comments[p][k].body.text, "@merge-at")}

\* C29: when the listing is answered, getLatestScheduleComment returns the
\* comment of the PR that mentions '@merge-at' and was posted last, and
\* undefined when no comment of the PR mentions it; when the host rejects
\* the listing, it rejects with the host's error.
C29_LatestScheduleComment ==
  Looked
    => /\ call.plan = {}
            => /\ ~call.threw
               /\ Mentions(call.pr) = {} => call.result = Undefined
               /\ \A k \in Mentions(call.pr) :
                    (\A j \in Mentions(call.pr) : j <= k)
                      => call.result = comments[call.pr][k]
       /\ call.plan # {}
            => /\ call.threw
               /\ \E f \in call.plan : call.error = HostError(f[2])

\* the same statement for the PRs whose comments all are on the first page
C29_LatestOfFirstPage ==
  (Looked /\ earlier[call.pr] + Len(comments[call.pr]) <= PerPage)
    => /\ call.plan = {}
            => /\ ~call.threw
               /\ Mentions(call.pr) = {} => call.result = Undefined
               /\ \A k \in Mentions(call.pr) :
                    (\A j \in Mentions(call.pr) : j <= k)
                      => call.result = comments[call.pr][k]
       /\ call.plan # {}
            => /\ call.threw
               /\ \E f \in call.plan : call.error = HostError(f[2])

\* of a command comment followed by the marker comment, which mentions
\* '@merge-at cancel', the marker comment is returned
LatestIsMarker ==
  /\ Looked
  /\ call.plan = {}
  /\ earlier[call.pr] = 0
  /\ HasMarker(call.result.body)
  /\ Len(comments[call.pr]) = 3

\* the ids of the marker comments of a sequence of comments
MarkerIds(cms) == {Markers(cms)[i].id : i \in 1..Len(Markers(cms))}

\* C31: when the text of a comment of an author found to have write access
\* contains the cancel command, also next to a well-formed schedule command,
\* handleComment never stores a schedule from it (no addLabels call, no
\* marker comment created, no marker that was not there before); with no
\* rejected host call it removes the label, deletes the marker comments
\* listed, the PR is no longer returned by getScheduledPRs, and the
\* cancelled comment is its last call.
C31_CancelTakesPrecedence ==
  (/\ last.op = "handleComment"
   /\ last.cmd.cancel
   /\ AuthorKnown /\ LookupOk /\ Authorized(last.role))
    => /\ Calls("addLabels", last.pr) = {}
       /\ \A k \in 1..Len(last.log) :
            last.log[k].op = "createComment" => ~HasMarker(last.log[k].body)
       /\ MarkerIds(comments[last.pr]) \subseteq MarkerIds(last.preComments[last.pr])
       /\ last.plan = {}
            => /\ ~last.threw
               /\ ~label[last.pr]
               /\ EntriesOf(NextListing, last.pr) = <<>>
               /\ \A i \in 1..Len(PageMarkers(last.pr)) :
                    PageMarkers(last.pr)[i].id \notin MarkerIds(comments[last.pr])
               /\ last.log[Len(last.log)].op = "createComment"
               /\ last.log[Len(last.log)].body = CancelledBody
               /\ Posts(last.pr, CancelledBody)

\* a comment holding the cancel command and a well-formed schedule command
\* for day 1 was handled on a scheduled PR: the schedule is gone and none
\* was stored
C31_Witness ==
  /\ last.op = "handleComment"
  /\ last.cmd.cancel /\ last.cmd.match /\ last.cmd.wellFormed
  /\ last.cmd.when = last.now + 1
  /\ last.role = "write"
  /\ last.plan = {}
  /\ last.preLabel[last.pr]
  /\ Markers(last.preComments[last.pr]) # <<>>
  /\ ~label[last.pr]
  /\ Markers(comments[last.pr]) = <<>>

\* the createComment calls of attempt a that carry a 'Failed to merge PR'
\* body
FailurePosts(a) ==
  {k \in Span(a) : last.log[k].op = "createComment" /\ IsFailureBody(last.log[k].body)}

\* no createComment call of attempt a was rejected
PostsAccepted(a) ==
  \A k \in Span(a) : last.log[k].op = "createComment" => last.log[k].status = 0

\* C33: a merge attempt that fails (the fetch answers not found or another
\* error, the PR is not mergeable, or the merge call is rejected) creates
\* exactly one 'Failed to merge PR' comment on the PR, the host accepting
\* the comments.
C33_OneFailureComment ==
  last.op = "sweep"
    => \A i \in 1..Len(last.attempts) :
         (/\ last.attempts[i].threw
          /\ ~MergeDone(last.attempts[i])
          /\ PostsAccepted(last.attempts[i]))
           => Cardinality(FailurePosts(last.attempts[i])) = 1

\* the same statement for the attempts whose fetch was accepted and reported
\* mergeable, or was rejected with a status other than 404
C33_OneCommentOtherPaths ==
  last.op = "sweep"
    => \A i \in 1..Len(last.attempts) :
         (/\ last.attempts[i].threw
          /\ ~MergeDone(last.attempts[i])
          /\ PostsAccepted(last.attempts[i])
          /\ \/ FetchedMergeable(last.attempts[i])
             \/ last.log[last.attempts[i].from].status \notin {0, 404})
           => Cardinality(FailurePosts(last.attempts[i])) = 1

\* C34: an attempt whose merge call the host accepted posts no 'Failed to
\* merge PR' comment and does not reject, also when the success comment or a
\* call of the cleanup is rejected afterwards; so an attempt that posts the
\* failure comment or rejects has not merged the PR.
C34_NoFailureAfterMerge ==
  last.op = "sweep"
    => \A i \in 1..Len(last.attempts) :
         MergeDone(last.attempts[i])
           => /\ FailurePosts(last.attempts[i]) = {}
              /\ ~last.attempts[i].threw

\* the same statement for the attempts with no rejected call after the merge
C34_NoFailureAfterCleanMerge ==
  last.op = "sweep"
    => \A i \in 1..Len(last.attempts) :
         (MergeDone(last.attempts[i]) /\ LaterCallsOk(last.attempts[i]))
           => /\ FailurePosts(last.attempts[i]) = {}
              /\ ~last.attempts[i].threw

\* C35: at the end of every invocation, also one in which a host call was
\* rejected partway through storeScheduleInfo or removeScheduleInfo, a PR
\* carries the label if and only if it carries exactly one marker comment
\* (stated for the PRs whose comments all are on the first page).
C35_LabelIffOneMarker ==
  \A p \in PRs :
    earlier[p] = 0 => (label[p] <=> NumMarkers(p) = 1)

\* the same statement where the commands are valid, their authors
\* authorized and no host call is rejected
C35_ConsistentWithoutFaults ==
  clean => \A p \in PRs : earlier[p] = 0 => (label[p] <=> NumMarkers(p) = 1)

\* the latest invocation was a valid schedule command of an authorized
\* author on a scheduled PR, and a rejected call of removeScheduleInfo or
\* storeScheduleInfo made it end by posting the error comment
RescheduleFailed ==
  /\ FailureRaised
  /\ InPersistence
  /\ ValidCmd(last.cmd, last.now)
  /\ ~last.threw
  /\ earlier[last.pr] = 0
  /\ last.preLabel[last.pr]
  /\ Len(Markers(last.preComments[last.pr])) = 1

\* C36: when a rescheduling ends by posting an error comment because
\* removing the old schedule or storing the new one failed, the PR still
\* carries its previous schedule: the label, the marker comment with the
\* old instant, and the next getScheduledPRs returns it with that instant.
C36_FailedRescheduleKeepsOld ==
  RescheduleFailed
    => /\ label[last.pr]
       /\ Markers(comments[last.pr]) = Markers(last.preComments[last.pr])
       /\ Len(EntriesOf(NextListing, last.pr)) = 1
       /\ EntriesOf(NextListing, last.pr)[1].scheduleTime =
            Markers(last.preComments[last.pr])[1].body.when

\* the same statement when the rejected call is the first call of the
\* removal (removeLabel, answered with a status other than 404)
C36_KeepsOldWhenFirstCallFails ==
  (RescheduleFailed /\ last.log[FaultAt].op = "removeLabel")
    => /\ label[last.pr]
       /\ Markers(comments[last.pr]) = Markers(last.preComments[last.pr])
       /\ Len(EntriesOf(NextListing, last.pr)) = 1
       /\ EntriesOf(NextListing, last.pr)[1].scheduleTime =
            Markers(last.preComments[last.pr])[1].body.when

\* the comments created on p by the latest invocation
NewComments(p) ==
  SelectSeq(comments[p],
            LAMBDA cm : \A j \in 1..Len(last.preComments[p]) : last.preComments[p][j].id # cm.id)

\* the bodies of the error replies of the schedule path
ErrorBodies ==
  {TextBody("(x) Invalid date/time format: " \o m) :
     m \in {"Invalid time format", "Scheduled time must be in the future",
            "Cannot schedule more than 30 days in advance"}}
  \cup {TextBody("(x) " \o HostError(s).message) : s \in {404, 405, 500}}

\* C39: a handleComment invocation in which the host rejects no
\* createComment call makes exactly one createComment call and creates
\* exactly one comment on the PR; its body is the permission-denied message,
\* the cancelled message, the usage error, a validation or persistence
\* error, the generic error, or the confirmation with the marker of the
\* command's instant.
C39_ExactlyOneReply ==
  (/\ last.op = "handleComment"
   /\ \A k \in 1..Len(last.log) :
        last.log[k].op = "createComment" => last.log[k].status = 0)
    => /\ Cardinality(Calls("createComment", last.pr)) = 1
       /\ \A k \in 1..Len(last.log) :
            last.log[k].op = "createComment" => last.log[k].pr = last.pr
       /\ Len(NewComments(last.pr)) = 1
       /\ NewComments(last.pr)[1].body \in
            {DeniedBody, CancelledBody, UsageBody, GenericBody, MarkerBody(last.cmd.when)}
              \cup ErrorBodies
       /\ HasMarker(NewComments(last.pr)[1].body)
            => /\ ~last.cmd.cancel
               /\ ValidCmd(last.cmd, last.now)
               /\ Authorized(last.role)

\* a rejected listComments in the removal of a rescheduling was answered by
\* one error comment, the only comment created
C39_Witness ==
  /\ last.op = "handleComment"
  /\ ~last.cmd.cancel
  /\ ValidCmd(last.cmd, last.now)
  /\ Cardinality(last.plan) = 1
  /\ last.log[FaultAt].op = "listComments"
  /\ Len(NewComments(last.pr)) = 1
  /\ NewComments(last.pr)[1].body = TextBody("(x) " \o HostError(500).message)

(***************************************************************************)
(* Observations on a sweep taken candidate by candidate.                   *)
(***************************************************************************)
\* the calls of op that step s made
StepCalls(s, op) == {k \in 1..Len(s.log) : s.log[k].op = op}

\* step s merged its candidate
StepMerged(s) == \E k \in StepCalls(s, "pulls.merge") : s.log[k].status = 0

\* C32: within one sweep the candidates are visited one at a time in the
\* order getScheduledPRs returned them, each once; a candidate gets a merge
\* attempt exactly when its instant is at or before the one instant
\* captured before the loop, whatever the clock shows when it is reached;
\* an attempt fetches the PR once and calls the merge at most once, also
\* when it fails.
C32_OneOrderedAttempt ==
  running.stage # "off"
    => /\ running.now <= now
       /\ Len(running.steps) + Len(running.todo) = Len(running.listed)
       /\ running.todo = SubSeq(running.listed, Len(running.steps) + 1, Len(running.listed))
       /\ \A i, j \in 1..Len(running.steps) :
            running.steps[i].pr = running.steps[j].pr => i = j
       /\ \A i \in 1..Len(running.steps) :
            LET s == running.steps[i]
            IN  /\ s.pr = running.listed[i].number
                /\ s.attempted <=> IsDue(running.listed[i].scheduleTime, running.now)
                /\ ~s.attempted => s.log = <<>>
                /\ s.attempted => Cardinality(StepCalls(s, "pulls.get")) = 1
                /\ Cardinality(StepCalls(s, "pulls.merge")) <= 1
                /\ \A k \in 1..Len(s.log) : s.log[k].pr = s.pr

\* a sweep whose first candidate had its merge rejected and was left, and
\* whose second candidate, due by the clock when it was reached but not at
\* the instant captured, was skipped
C32_Witness ==
  /\ running.stage = "done"
  /\ Len(running.steps) = 2
  /\ running.steps[1].attempted
  /\ running.steps[1].threw
  /\ \E k \in StepCalls(running.steps[1], "pulls.merge") : running.steps[1].log[k].status # 0
  /\ ~running.steps[2].attempted
  /\ running.steps[2].clock > running.now
  /\ running.listed[2].scheduleTime = running.steps[2].clock

\* C37: a sweep merges a PR only if, when it reaches the PR, the PR still
\* carries the label and a marker comment whose instant is at or before the
\* current time, also when a comment invocation ran after the listing.
C37_MergeOnlyIfStillScheduled ==
  running.stage # "off"
    => \A i \in 1..Len(running.steps) :
         StepMerged(running.steps[i])
           => /\ running.steps[i].labelled
              /\ \E w \in running.steps[i].stored : w <= running.steps[i].clock

\* C37 where no comment invocation ran between the listing and the step
C37_HoldsWithoutOverlap ==
  running.stage # "off"
    => \A i \in 1..Len(running.steps) :
         (/\ StepMerged(running.steps[i])
          /\ running.steps[i].events = running.events)
           => /\ running.steps[i].labelled
              /\ \E w \in running.steps[i].stored : w <= running.steps[i].clock

(***************************************************************************)
(* Observations on recurring sweeps.                                       *)
(***************************************************************************)
\* p is open and carries a stored schedule: the label and a marker comment
HasSchedule(p) == ~merged[p] /\ label[p] /\ Markers(comments[p]) # <<>>

\* p is merged and its schedule state is cleared
MergedAndCleared(p) == merged[p] /\ ~label[p] /\ Markers(comments[p]) = <<>>

\* C38: with sweeps recurring forever, no rejected host call and no comment
\* event, every open PR with a stored schedule that is mergeable from some
\* point on is eventually merged by a sweep, and its label and marker
\* comments are then removed.
C38_EventuallyMerged ==
  \A p \in PRs : HasSchedule(p) ~> MergedAndCleared(p)

\* C38 for the PRs whose comments all fit on the first page of the listing
C38_EventuallyMergedOnFirstPage ==
  \A p \in PRs : (HasSchedule(p) /\ earlier[p] = 0) ~> MergedAndCleared(p)

\* a PR whose first attempt failed is attempted again by a later sweep
\* and merged then
C38_RetriedAndMerged ==
  /\ last.op = "sweep"
  /\ \E p \in PRs :
       /\ merged[p]
       /\ ~last.preMerged[p]
       /\ \E i \in 1..Len(last.preComments[p]) :
            IsFailureBody(last.preComments[p][i].body)

====
